---- MODULE Spec2Model ----
(***************************************************************************)
(* A model of the KiCad exporter of pcb2kicad (src/hid/kicad/kicad.c) and  *)
(* of the geometry helpers of src/misc.c it relies on.                     *)
(*                                                                         *)
(* C strings are sequences of one-character strings, so that sprintf,      *)
(* strcmp, strncpy, atof and the trimming loop are computed, not assumed.  *)
(* A pointer into net_descs is the index of the descriptor it points to;   *)
(* the null pointer is NULL.                                               *)
(***************************************************************************)
EXTENDS Integers, Sequences, FiniteSets, TLC

\* ------------------------------------------------------------------ bounds
MaxNets == 2        \* nets in the netlist of a board
MaxExports == 2     \* kicad_do_export invocations in one behaviour
MaxAddNetCalls == 3 \* kicad_add_net calls in one pass of SpecAddNet
MaxCoord == 6       \* largest offset of a pin from the mark in SpecRot
MaxAttrLen == 3     \* longest fixed-rotation attribute in SpecRot
AngleSteps == 2     \* SpecAngle draws angles in steps of 1 / AngleSteps degree
MaxPoints == 10     \* most points of a polygon in SpecZone
MaxHoles == 2       \* most holes of a polygon in SpecZone
MaxRandStep == 15   \* largest step between two rand() values in SpecUuid
MaxGroups == 3      \* most used layer groups in SpecGroup
MaxGroupLayer == 1  \* largest layer number listed in a group in SpecGroup
MaxThickness == 3   \* largest thickness of an object in SpecBox
MaxAssignAdds == 3  \* kicad_add_net_assign calls in one behaviour of SpecAssign

\* ------------------------------------------------------- program constants
NULL == -1               \* the null pointer (net == 0 in the C code)
NetDescsInitial == 100   \* calloc(100, sizeof(net_descriptor))
NetDescsGrow == 100      \* const int grow = 100
NetAssignInitial == 1000 \* calloc(1000, sizeof(net_assignment))
NetAssignGrow == 1000    \* const int grow = 1000
NetNameSize == 16        \* char net_name[16], strncpy(..., 16)
UuidRandCalls == 32      \* rand() calls of one kicad_uuid: 8+4+4+4+12
SILK_LAYER == 2          \* the two silk layers after the copper layers
MAX_LAYER == 16          \* number of layer groups scanned
MAX_COORD == 10000000    \* start value of the element box minima

VISITFLAG == "VISITFLAG"
FOUNDFLAG == "FOUNDFLAG"

\* ---------------------------------------------------------------- strings
Min(a, b) == IF a < b THEN a ELSE b

\* while(*netname == ' ') netname++;
RECURSIVE SkipSpaces(_)
SkipSpaces(s) ==
    IF s # <<>> /\ Head(s) = " " THEN SkipSpaces(Tail(s)) ELSE s

\* strncpy (dst, src, n) into a zeroed buffer, read back with %s; the names
\* of the model are shorter than n, so the copy is terminated.
strncpy(s, n) == SubSeq(s, 1, Min(Len(s), n))

\* sprintf(nodename, "%s-%s", refdes, number)
nodename(refdes, number) == refdes \o <<"-">> \o number

\* ------------------------------------------------------------- the board
\* Pins and pads of the two elements, the via and the layer objects.  Therm
\* holds the thermal style of the pin or pad on each copper layer.
Pin11 == [id |-> "p11", Number |-> <<"1">>, X |-> 0, Y |-> 0,
          Therm |-> <<0, 0, 0, 0>>, Clearance |-> 4]
Pin12 == [id |-> "p12", Number |-> <<"2">>, X |-> 10, Y |-> 0,
          Therm |-> <<0, 3, 0, 0>>, Clearance |-> 4]
Pin21 == [id |-> "p21", Number |-> <<"1">>, X |-> 20, Y |-> 25,
          Therm |-> <<1, 3, 0, 0>>, Clearance |-> 6]
Pad21 == [id |-> "d21", Number |-> <<"2">>, Point1 |-> [X |-> 24, Y |-> 20],
          Point2 |-> [X |-> 26, Y |-> 20], Thickness |-> 2,
          Therm |-> <<0, 2, 0, 0>>, Clearance |-> 4, ONSOLDERFLAG |-> TRUE]
Pad22 == [id |-> "d22", Number |-> <<"3">>, Point1 |-> [X |-> 24, Y |-> 30],
          Point2 |-> [X |-> 26, Y |-> 30], Thickness |-> 0,
          Therm |-> <<0, 0, 0, 0>>, Clearance |-> 4, ONSOLDERFLAG |-> TRUE]

NoAttribute == <<"<none>">>

\* Name[k + 1] is the C Name[k]: the description, the reference designator
\* and the value.
Element1 ==
    [Name |-> << [TextString |-> <<"R","0","8">>, Direction |-> 0],
                 [TextString |-> <<"R","1">>, Direction |-> 0],
                 [TextString |-> <<"1","k">>, Direction |-> 1] >>,
     MarkX |-> 0, MarkY |-> 0, ONSOLDERFLAG |-> FALSE,
     Attributes |-> NoAttribute,
     Pin |-> <<Pin11, Pin12>>, Pad |-> <<>>, Line |-> <<"el1">>]
Element2 ==
    [Name |-> << [TextString |-> <<"S","O","T">>, Direction |-> 0],
                 [TextString |-> <<"U","1">>, Direction |-> 1],
                 [TextString |-> <<"x">>, Direction |-> 3] >>,
     MarkX |-> 25, MarkY |-> 25, ONSOLDERFLAG |-> TRUE,
     Attributes |-> NoAttribute,
     Pin |-> <<Pin21>>, Pad |-> <<Pad21, Pad22>>, Line |-> <<>>]

Elements == <<Element1, Element2>>
Vias == <<"v1">>

LT_COPPER == "LT_COPPER"
LT_SILK == "LT_SILK"
LT_OUTLINE == "LT_OUTLINE"
LT_NOTES == "LT_NOTES"

\* Data->Layer[0 .. max_copper_layer + SILK_LAYER - 1]; Layers[n + 1] is
\* the C layer n.
Layers ==
    << [Name |-> <<"t","o","p">>, Type |-> LT_COPPER,
        Line |-> <<"l1">>, Arc |-> <<"a1">>, Polygon |-> <<>>, Text |-> <<>>],
       [Name |-> <<"b","o","t">>, Type |-> LT_COPPER,
        Line |-> <<>>, Arc |-> <<>>, Polygon |-> <<"g1">>, Text |-> <<>>],
       [Name |-> <<"o","u","t">>, Type |-> LT_OUTLINE,
        Line |-> <<"o1">>, Arc |-> <<>>, Polygon |-> <<>>, Text |-> <<>>],
       [Name |-> <<"n","o","t">>, Type |-> LT_NOTES,
        Line |-> <<"n1">>, Arc |-> <<>>, Polygon |-> <<>>, Text |-> <<>>],
       [Name |-> <<"b","s">>, Type |-> LT_SILK,
        Line |-> <<>>, Arc |-> <<>>, Polygon |-> <<>>, Text |-> <<>>],
       [Name |-> <<"t","s">>, Type |-> LT_SILK,
        Line |-> <<"s1">>, Arc |-> <<>>, Polygon |-> <<>>, Text |-> <<"t1">>] >>

max_copper_layer == Len(Layers) - SILK_LAYER

\* The points of a polygon are numbered 0 .. PointN - 1; HoleIndex holds the
\* index of the first point of each hole.
Polygons == [g \in {"g1"} |-> [PointN |-> 10, HoleIndex |-> <<8>>]]

\* PCB->Data of the boards that are exported: the populated board, the same
\* board with its outline layer ahead of a copper layer, and a board without
\* any object.
FullData == [Element |-> Elements, Via |-> Vias, Layer |-> Layers]
OutlineAheadData ==
    [FullData EXCEPT !.Layer = <<Layers[1], Layers[3], Layers[2], Layers[4],
                                 Layers[5], Layers[6]>>]
EmptyData ==
    [Element |-> <<>>, Via |-> <<>>,
     Layer |-> [n \in 1..Len(Layers) |->
                  [Layers[n] EXCEPT !.Line = <<>>, !.Arc = <<>>,
                                    !.Polygon = <<>>, !.Text = <<>>]]]
Boards == {FullData, OutlineAheadData, EmptyData}

\* PCB->LayerGroups: group g + 1 of the sequence lists the layers of the C
\* group g.  The silk layers sit in the groups of their sides.
LayerGroups ==
    << <<0, max_copper_layer + 1>>, <<1, max_copper_layer>>, <<2>>, <<3>> >>

ToSet(s) == {s[i] : i \in 1..Len(s)}

PinIds ==
    UNION {{Elements[e].Pin[i].id : i \in 1..Len(Elements[e].Pin)}
             : e \in 1..Len(Elements)}
PadIds ==
    UNION {{Elements[e].Pad[i].id : i \in 1..Len(Elements[e].Pad)}
             : e \in 1..Len(Elements)}
\* every object that carries flag bits
Objects ==
    PinIds \cup PadIds \cup ToSet(Vias)
      \cup UNION {ToSet(Layers[n].Line) \cup ToSet(Layers[n].Arc)
                    \cup ToSet(Layers[n].Polygon) \cup ToSet(Layers[n].Text)
                  : n \in 1..Len(Layers)}

\* Pairs of objects whose copper may touch; a board touches in a subset.
CandidateTouch ==
    { {"p11", "l1"}, {"l1", "p21"}, {"p12", "v1"}, {"v1", "g1"},
      {"d21", "a1"} }

\* The nets a netlist is made of: a name (one with leading blanks) and the
\* "<refdes>-<number>" entries.
NetChoices ==
    { [Name |-> <<" ", "G", "N", "D">>,
       Entry |-> << <<"R","1","-","1">>, <<"U","1","-","2">> >>],
      [Name |-> <<"V", "C", "C">>,
       Entry |-> << <<"X","9","-","1">>, <<"R","1","-","2">>,
                    <<"U","1","-","1">> >>],
      [Name |-> <<"N", "1">>,
       Entry |-> << <<"U","1","-","1">>, <<"R","1","-","1">> >>] }

Netlists == UNION {[1..n -> NetChoices] : n \in 0..MaxNets}

\* -------------------------------------------------------------- the state
VARIABLES
    Menu,                 \* PCB->NetlistLib.Menu
    touching,             \* the pairs of objects whose copper touches
    Data,                 \* PCB->Data: [Element, Via, Layer]
    flags,                \* the flag bits of every board object
    kicad_net_assign,     \* the assignment table (its used entries), or NULL
    kicad_num_net_assign,
    kicad_max_net_assign,
    net_descs,            \* kicad_print's descriptor table (used entries)
    max_net_descs,
    heap,                 \* live calloc blocks: [descs |-> n, assign |-> n]
    fp,                   \* "none", "NULL" (fopen failed), "open", "closed"
    doc,                  \* what this invocation wrote to fp
    log,                  \* what this invocation logged through gui->log
    pc,                   \* where kicad_print stands
    ei,                   \* ELEMENT_LOOP index
    li,                   \* PIN_LOOP / PAD_LOOP / VIA_LOOP / LAYER_LOOP index
    rot,                  \* rot of the element being printed
    print_ret,            \* what kicad_print returned
    export_ret,           \* what kicad_do_export returned
    exports,              \* invocations so far
    rand_state,           \* rand() calls made by the process so far
    prevDoc,              \* the document of the previous successful export
    calls,                \* the kicad_add_net calls of this pass: [ptr, net, found]
    lookups,              \* LookupConnectionByPin calls of this invocation
    entryFlags,           \* the flag bits when this invocation began
    rot_element,          \* the element kicad_get_rotation is called with
    theta,                \* what that call returned
    arg,                  \* the argument of a function that is called alone
    ret                   \* what that function returned

vars ==
    <<Menu, touching, Data, flags, kicad_net_assign, kicad_num_net_assign,
      kicad_max_net_assign, net_descs, max_net_descs, heap, fp, doc, log, pc,
      ei, li, rot, print_ret, export_ret, exports, rand_state, prevDoc, calls,
      lookups, entryFlags, rot_element, theta, arg, ret>>

\* --------------------------------------------------------------- flag bits
TEST_FLAG(F, o, fl) == F \in fl[o]
SET_FLAG(F, o, fl) == [fl EXCEPT ![o] = @ \cup {F}]
ClearFlagOnAllObjects(F, fl) == [o \in DOMAIN fl |-> fl[o] \ {F}]

\* The objects galvanically reachable from ptr through touching copper.
RECURSIVE Reach(_, _)
Reach(S, touch) ==
    LET T == S \cup {o \in Objects : \E s \in S : {s, o} \in touch}
    IN IF T = S THEN S ELSE Reach(T, touch)

\* find.c: marks ptr and every object connected to it with FOUNDFLAG.
LookupConnectionByPin(ptr, touch) == Reach({ptr}, touch)

\* ----------------------------------------------------- the assignment table
\* T is [assign, num, max]: kicad_net_assign, kicad_num_net_assign and
\* kicad_max_net_assign.
\* Mutant of kicad_add_net_assign: the grown table is not filled from the
\* old one and keeps the zeroes of calloc.
kicad_add_net_assign_NoCopy(T, item, net) ==
    LET G == IF T.num >= T.max
             THEN [T EXCEPT !.max = @ + NetAssignGrow,
                            !.assign = [i \in 1..Len(@) |-> [item |-> 0, net |-> 0]]]
             ELSE T
    IN [G EXCEPT !.assign = SubSeq(@, 1, G.num) \o <<[item |-> item, net |-> net]>>,
                 !.num = @ + 1]

kicad_add_net_assign(T, item, net) ==
    LET G == IF T.num >= T.max
             THEN [T EXCEPT !.max = @ + NetAssignGrow]  \* calloc, memcpy, free
             ELSE T
    IN [G EXCEPT !.assign = SubSeq(@, 1, G.num) \o <<[item |-> item, net |-> net]>>,
                 !.num = @ + 1]

\* The for loop returns at the first i < num whose entry holds the item.
kicad_get_net_assign(assign, num, item) ==
    LET hits == {i \in 0..(num - 1) : item = assign[i + 1].item}
    IN IF hits = {} THEN NULL
       ELSE assign[(CHOOSE i \in hits : \A j \in hits : i <= j) + 1].net

\* The order in which kicad_add_net walks the board: per element its pads,
\* then its pins; the vias; per copper layer its lines, arcs and polygons.
Ids(objs) == [i \in 1..Len(objs) |-> objs[i].id]

RECURSIVE ElementOrder(_)
ElementOrder(i) ==
    IF i > Len(Data.Element) THEN <<>>
    ELSE Ids(Data.Element[i].Pad) \o Ids(Data.Element[i].Pin) \o ElementOrder(i + 1)

RECURSIVE LayerOrder(_)
LayerOrder(i) ==
    IF i > max_copper_layer THEN <<>>
    ELSE Data.Layer[i].Line \o Data.Layer[i].Arc \o Data.Layer[i].Polygon
           \o LayerOrder(i + 1)

AddNetOrder == ElementOrder(1) \o Data.Via \o LayerOrder(1)

\* Mutant of AddNetVisit: the object is recorded but never marked visited.
AddNetVisit_NoMark(S, o, net) ==
    IF ~TEST_FLAG(VISITFLAG, o, S.flags) /\ TEST_FLAG(FOUNDFLAG, o, S.flags)
    THEN [flags |-> S.flags, T |-> kicad_add_net_assign(S.T, o, net)]
    ELSE S

\* Mutant of AddNetVisit: the visited marker is not tested.
AddNetVisit_NoVisitTest(S, o, net) ==
    IF TEST_FLAG(FOUNDFLAG, o, S.flags)
    THEN [flags |-> SET_FLAG(VISITFLAG, o, S.flags),
          T |-> kicad_add_net_assign(S.T, o, net)]
    ELSE S

\* The body of each loop of kicad_add_net, on S = [flags, T].
AddNetVisit(S, o, net) ==
    IF ~TEST_FLAG(VISITFLAG, o, S.flags) /\ TEST_FLAG(FOUNDFLAG, o, S.flags)
    THEN [flags |-> SET_FLAG(VISITFLAG, o, S.flags),
          T |-> kicad_add_net_assign(S.T, o, net)]
    ELSE S

RECURSIVE AddNetLoops(_, _, _)
AddNetLoops(S, order, net) ==
    IF order = <<>> THEN S
    ELSE AddNetLoops(AddNetVisit(S, Head(order), net), Tail(order), net)

\* kicad_add_net (type, ptr, net), where found is what LookupConnectionByPin
\* (type, ptr) marks.
kicad_add_net(S, found, net) ==
    LET cleared == ClearFlagOnAllObjects(FOUNDFLAG, S.flags)
        marked == [o \in Objects |->
                     IF o \in found THEN cleared[o] \cup {FOUNDFLAG}
                     ELSE cleared[o]]
    IN AddNetLoops([flags |-> marked, T |-> S.T], AddNetOrder, net)


\* ---------------------------------------------------------------- rotation
\* An angle in degrees: the rational num / den, or, of kind "atan2deg",
\* (180 / pi) * atan2 (num, den).
Deg(k) == [kind |-> "deg", num |-> k, den |-> 1]

RECURSIVE Normalize(_, _)
Normalize(num, den) ==
    IF den > 1 /\ num % 10 = 0 THEN Normalize(num \div 10, den \div 10)
    ELSE [kind |-> "deg", num |-> num, den |-> den]

Digits == {"0", "1", "2", "3", "4", "5", "6", "7", "8", "9"}
DigitVal(c) ==
    CASE c = "0" -> 0 [] c = "1" -> 1 [] c = "2" -> 2 [] c = "3" -> 3
      [] c = "4" -> 4 [] c = "5" -> 5 [] c = "6" -> 6 [] c = "7" -> 7
      [] c = "8" -> 8 [] c = "9" -> 9

RECURSIVE TakeDigits(_)
TakeDigits(s) ==
    IF s # <<>> /\ Head(s) \in Digits THEN <<Head(s)>> \o TakeDigits(Tail(s))
    ELSE <<>>

RECURSIVE DigitsVal(_, _)
DigitsVal(ds, acc) ==
    IF ds = <<>> THEN acc ELSE DigitsVal(Tail(ds), 10 * acc + DigitVal(Head(ds)))

RECURSIVE Pow10(_)
Pow10(k) == IF k = 0 THEN 1 ELSE 10 * Pow10(k - 1)

\* atof: blanks, an optional sign, digits, an optional point and digits; the
\* rest of the string is ignored and a string without a number yields 0.
\* (Exponents, "inf", "nan" and hexadecimal need characters the attribute
\* strings of the model do not have.)
atof(s) ==
    LET a == SkipSpaces(s)
        neg == a # <<>> /\ Head(a) = "-"
        b == IF a # <<>> /\ Head(a) \in {"+", "-"} THEN Tail(a) ELSE a
        ip == TakeDigits(b)
        r == SubSeq(b, Len(ip) + 1, Len(b))
        fr == IF r # <<>> /\ Head(r) = "." THEN TakeDigits(Tail(r)) ELSE <<>>
        mag == DigitsVal(ip, 0) * Pow10(Len(fr)) + DigitsVal(fr, 0)
    IN IF ip = <<>> /\ fr = <<>> THEN Deg(0)
       ELSE Normalize(IF neg THEN 0 - mag ELSE mag, Pow10(Len(fr)))

\* cos and sin of the sector bounds of xyToAngle, times 10^6.
Cos6(T) ==
    CASE T \in {5, -5, 175, -175} -> (IF T \in {5, -5} THEN 996195 ELSE -996195)
      [] T \in {10, -10, 170, -170} -> (IF T \in {10, -10} THEN 984808 ELSE -984808)
      [] T \in {80, -80, 100, -100} -> (IF T \in {80, -80} THEN 173648 ELSE -173648)
      [] T \in {85, -85, 95, -95} -> (IF T \in {85, -85} THEN 87156 ELSE -87156)
Sin6(T) ==
    LET a == IF T < 0 THEN 0 - T ELSE T
        m == CASE a \in {5, 175} -> 87156 [] a \in {10, 170} -> 173648
               [] a \in {80, 100} -> 984808 [] a \in {85, 95} -> 996195
    IN IF T < 0 THEN 0 - m ELSE m

\* d < T for d = atan2 (-y, x) * 180.0 / M_PI.  -y is -0.0 when y is 0, so
\* d is -180 for a point left of the origin on the X axis.  The sign of the
\* cross product decides the other cases; with the six-digit table it is
\* exact for integer coordinates below 500.
AngleLess(x, y, T) ==
    LET cross == Cos6(T) * (0 - y) - Sin6(T) * x
    IN IF y > 0 THEN (T > 0 \/ cross < 0)
       ELSE IF y = 0 THEN (IF x < 0 THEN TRUE ELSE T > 0)
       ELSE (T > 0 /\ cross < 0)

\* d < T for the angle d of xyToAngle: d is atan2 (-y, x) * 180.0 / M_PI of
\* a point, or a number of degrees given in AngleSteps-th parts.
DLess(d, T) ==
    IF d.kind = "atan2" THEN AngleLess(d.x, d.y, T)
    ELSE d.steps < T * AngleSteps

\* The two tables swapped.
AngleSector_Swapped(d, morethan2pins) ==
    IF ~morethan2pins
    THEN IF DLess(d, -100) THEN 90
         ELSE IF DLess(d, -10) THEN 180
         ELSE IF DLess(d, 80) THEN 270
         ELSE IF DLess(d, 170) THEN 0
         ELSE 90
    ELSE IF DLess(d, -175) THEN 0
         ELSE IF DLess(d, -85) THEN 90
         ELSE IF DLess(d, 5) THEN 180
         ELSE IF DLess(d, 95) THEN 270
         ELSE 0

\* The sectors of xyToAngle.
AngleSector(d, morethan2pins) ==
    IF morethan2pins
    THEN IF DLess(d, -100) THEN 90
         ELSE IF DLess(d, -10) THEN 180
         ELSE IF DLess(d, 80) THEN 270
         ELSE IF DLess(d, 170) THEN 0
         ELSE 90
    ELSE IF DLess(d, -175) THEN 0
         ELSE IF DLess(d, -85) THEN 90
         ELSE IF DLess(d, 5) THEN 180
         ELSE IF DLess(d, 95) THEN 270
         ELSE 0

xyToAngle(x, y, morethan2pins) ==
    AngleSector([kind |-> "atan2", x |-> x, y |-> y], morethan2pins)

reference_pin_names == << <<"1">>, <<"2">>, <<"A","1">>, <<"A","2">>,
                          <<"B","1">>, <<"B","2">> >>

\* The element is on the side being looked at; the board is looked at from
\* the top.
FRONT(element) == ~element.ONSOLDERFLAG

\* What the PIN_LOOP and the PAD_LOOP store per pin or pad: twice its
\* position (a pad centre lies on half units) and its angle.
PinEntry(pin) ==
    [Number |-> pin.Number, x2 |-> 2 * pin.X, y2 |-> 2 * pin.Y, angle |-> Deg(0)]
PadEntry(pad) ==
    LET dy == pad.Point1.Y - pad.Point2.Y
        dx == pad.Point2.X - pad.Point1.X
    IN [Number |-> pad.Number,
        x2 |-> pad.Point1.X + pad.Point2.X,
        y2 |-> pad.Point1.Y + pad.Point2.Y,
        angle |-> IF dy = 0 /\ dx >= 0 THEN Deg(0)
                  ELSE [kind |-> "atan2deg", num |-> dy, den |-> dx]]

RefEntries(element) ==
    [i \in 1..Len(element.Pin) |-> PinEntry(element.Pin[i])]
      \o [i \in 1..Len(element.Pad) |-> PadEntry(element.Pad[i])]

\* pinfound[rpindex], and the entry that was stored last for it
PinFound(entries, r) ==
    \E i \in 1..Len(entries) : entries[i].Number = reference_pin_names[r]
LastStored(entries, r) ==
    LET I == {i \in 1..Len(entries) : entries[i].Number = reference_pin_names[r]}
    IN entries[CHOOSE i \in I : \A j \in I : j <= i]

\* Mutant of RefPinLoop: the table for more than two pins is always used.
RECURSIVE RefPinLoop_ManyPins(_, _, _)
RefPinLoop_ManyPins(element, entries, r) ==
    IF r > Len(reference_pin_names) THEN Deg(0)
    ELSE IF ~PinFound(entries, r) THEN RefPinLoop_ManyPins(element, entries, r + 1)
    ELSE LET p == LastStored(entries, r)
             dx == p.x2 - 2 * element.MarkX
             pin1x == IF ~FRONT(element) THEN 0 - dx ELSE dx
             pin1y == p.y2 - 2 * element.MarkY
             pin_cnt == Len(entries)
         IN IF pin_cnt = 1 THEN p.angle
            ELSE IF pin1x # 0 \/ pin1y # 0
                 THEN Deg(xyToAngle(pin1x, pin1y, TRUE))
            ELSE RefPinLoop_ManyPins(element, entries, r + 1)

\* Mutant of RefPinLoop: a reference pin on the mark is not passed over.
RECURSIVE RefPinLoop_NoSkip(_, _, _)
RefPinLoop_NoSkip(element, entries, r) ==
    IF r > Len(reference_pin_names) THEN Deg(0)
    ELSE IF ~PinFound(entries, r) THEN RefPinLoop_NoSkip(element, entries, r + 1)
    ELSE LET p == LastStored(entries, r)
             dx == p.x2 - 2 * element.MarkX
             pin1x == IF ~FRONT(element) THEN 0 - dx ELSE dx
             pin1y == p.y2 - 2 * element.MarkY
             pin_cnt == Len(entries)
         IN IF pin_cnt = 1 THEN p.angle
            ELSE Deg(xyToAngle(pin1x, pin1y, pin_cnt > 2))

\* "Find first reference pin not at the centroid"
RECURSIVE RefPinLoop(_, _, _)
RefPinLoop(element, entries, r) ==
    IF r > Len(reference_pin_names) THEN Deg(0)
    ELSE IF ~PinFound(entries, r) THEN RefPinLoop(element, entries, r + 1)
    ELSE LET p == LastStored(entries, r)
             dx == p.x2 - 2 * element.MarkX
             pin1x == IF ~FRONT(element) THEN 0 - dx ELSE dx
             pin1y == p.y2 - 2 * element.MarkY
             pin_cnt == Len(entries)
         IN IF pin_cnt = 1 THEN p.angle
            ELSE IF pin1x # 0 \/ pin1y # 0
                 THEN Deg(xyToAngle(pin1x, pin1y, pin_cnt > 2))
            ELSE RefPinLoop(element, entries, r + 1)

\* Mutant of kicad_get_rotation: the fixed-rotation attribute is ignored.
kicad_get_rotation_NoAttribute(element) ==
    LET entries == RefEntries(element)
    IN IF Len(entries) > 0 THEN RefPinLoop(element, entries, 1) ELSE Deg(0)

kicad_get_rotation(element) ==
    IF element.Attributes # NoAttribute THEN atof(element.Attributes)
    ELSE LET entries == RefEntries(element)
         IN IF Len(entries) > 0 THEN RefPinLoop(element, entries, 1)
            ELSE Deg(0)


\* --------------------------------------------------------- layer groups
\* Groups[g + 1] holds Entries[g][0 .. Number[g] - 1]; the groups past the end
\* of Groups have Number 0.
RECURSIVE GroupScan(_, _, _)
GroupScan(Groups, group, Layer) ==
    IF group >= MAX_LAYER THEN group
    ELSE IF group + 1 <= Len(Groups) /\ Layer \in ToSet(Groups[group + 1])
         THEN group
    ELSE GroupScan(Groups, group + 1, Layer)

GetLayerGroupNumberByNumber(Layer) == GroupScan(LayerGroups, 0, Layer)

TOP_SIDE == "TOP_SIDE"
BOTTOM_SIDE == "BOTTOM_SIDE"
\* the group of the silk layer of the side
GetLayerGroupNumberBySide(side) ==
    GetLayerGroupNumberByNumber(IF side = TOP_SIDE THEN max_copper_layer + 1
                                ELSE max_copper_layer)

\* ------------------------------------------------------------ the document
\* The 36 characters of an identifier are drawn from the rand() calls
\* r .. r + 31 of the process.
kicad_uuid(r) == [rand_from |-> r, rand_to |-> r + UuidRandCalls - 1]

\* The characters kicad_uuid writes into its buffer when the rand() calls
\* return rs[1], rs[2], ...
uuidchars == <<"0", "1", "2", "3", "4", "5", "6", "7", "8", "9",
               "a", "b", "c", "d", "e", "f">>

\* for(i = from; i < from + n; i++) uuid[i] = uuidchars[rand()%16], the loop
\* starting with rand() call number used + 1
UuidLoop(rs, used, n) == [i \in 1..n |-> uuidchars[(rs[used + i] % 16) + 1]]

\* Mutant of kicad_uuid_buffer: the separators are left out.
kicad_uuid_buffer_NoDash(rs) ==
    UuidLoop(rs, 0, 8) \o UuidLoop(rs, 8, 4) \o UuidLoop(rs, 12, 4)
      \o UuidLoop(rs, 16, 4) \o UuidLoop(rs, 20, 12)

kicad_uuid_buffer(rs) ==
    UuidLoop(rs, 0, 8) \o <<"-">> \o UuidLoop(rs, 8, 4) \o <<"-">>
      \o UuidLoop(rs, 12, 4) \o <<"-">> \o UuidLoop(rs, 16, 4) \o <<"-">>
      \o UuidLoop(rs, 20, 12)

\* Gives every item that carries an identifier a fresh one, in print order.
RECURSIVE Stamp(_, _)
Stamp(items, r) ==
    IF items = <<>> THEN <<>>
    ELSE IF "uuid" \in DOMAIN Head(items)
         THEN <<[Head(items) EXCEPT !.uuid = kicad_uuid(r)]>>
                \o Stamp(Tail(items), r + UuidRandCalls)
    ELSE <<Head(items)>> \o Stamp(Tail(items), r)

UuidCount(items) == Cardinality({i \in 1..Len(items) : "uuid" \in DOMAIN items[i]})

NoUuid == [rand_from |-> 0, rand_to |-> 0]

\* The net table: D is [descs, max, out], netnum the next id.
ZeroDesc == [net_id |-> 0, net_name |-> <<>>]

\* Mutant of NetZero: the entry of net 0 is not printed.
NetZero_NoEntry(D) ==
    [D EXCEPT !.descs = <<[ZeroDesc EXCEPT !.net_name = <<"0">>]>>]

NetZero(D) ==
    LET d == [ZeroDesc EXCEPT !.net_name = <<"0">>]      \* strcpy (.., "0")
    IN [D EXCEPT !.descs = <<d>>,
                 !.out = <<[kind |-> "net", id |-> 0, name |-> d.net_name]>>]

\* Mutant of NetEntry: the id is the loop index, not netnum.
NetEntry_IdFromIndex(D, menu, i, netnum) ==
    LET netname == SkipSpaces(menu[i + 1].Name)
        d == [net_id |-> i, net_name |-> strncpy(netname, NetNameSize)]
    IN [D EXCEPT !.descs = Append(@, d),
                 !.out = Append(@, [kind |-> "net", id |-> i,
                                    name |-> d.net_name])]

NetEntry(D, menu, i, netnum) ==
    LET netname == SkipSpaces(menu[i + 1].Name)
        G == IF Len(D.descs) >= D.max
             THEN [D EXCEPT !.max = @ + NetDescsGrow]    \* calloc, memcpy, free
             ELSE D
        d == [net_id |-> netnum, net_name |-> strncpy(netname, NetNameSize)]
    IN [G EXCEPT !.descs = Append(@, d),
                 !.out = Append(@, [kind |-> "net", id |-> netnum,
                                    name |-> d.net_name])]

RECURSIVE NetTable(_, _, _, _)
NetTable(D, menu, i, netnum) ==
    IF i >= Len(menu) THEN D
    ELSE NetTable(NetEntry(D, menu, i, netnum), menu, i + 1, netnum + 1)

\* The descriptor a net pointer points to; a null pointer is replaced by
\* &net_descs[0].
DescOf(descs, net) == descs[(IF net = NULL THEN 0 ELSE net) + 1]

\* The scan of the netlist for the node name: the inner loop breaks on a
\* hit, the outer loop goes on.
RECURSIVE NetByName(_, _, _, _)
NetByName(menu, name, i, net) ==
    IF i >= Len(menu) THEN net
    ELSE NetByName(menu, name, i + 1,
                   IF \E j \in 1..Len(menu[i + 1].Entry) : menu[i + 1].Entry[j] = name
                   THEN i + 1 ELSE net)

\* Mutant of ResolveNet: no flood-fill for a seed without a net.
ResolveNet_SkipUnmatched(S, refdes, o, menu, touch) ==
    IF ~TEST_FLAG(VISITFLAG, o.id, S.flags)
    THEN LET net == NetByName(menu, nodename(refdes, o.Number), 0, NULL)
             found == LookupConnectionByPin(o.id, touch)
         IN [S |-> IF net = NULL THEN S ELSE kicad_add_net(S, found, net),
             net |-> net,
             call |-> <<[ptr |-> o.id, net |-> net, found |-> found]>>]
    ELSE [S |-> S, net |-> kicad_get_net_assign(S.T.assign, S.T.num, o.id),
          call |-> <<>>]

\* The net of a pin or pad o of the element named refdes, on S = [flags, T]:
\* [S, net, call], call holding the kicad_add_net call made for it, if any.
ResolveNet(S, refdes, o, menu, touch) ==
    IF ~TEST_FLAG(VISITFLAG, o.id, S.flags)
    THEN LET net == NetByName(menu, nodename(refdes, o.Number), 0, NULL)
             found == LookupConnectionByPin(o.id, touch)
         IN [S |-> kicad_add_net(S, found, net), net |-> net,
             call |-> <<[ptr |-> o.id, net |-> net, found |-> found]>>]
    ELSE [S |-> S, net |-> kicad_get_net_assign(S.T.assign, S.T.num, o.id),
          call |-> <<>>]

\* One point list: the points first .. end - 1, np carried in.  A line is
\* [indent, pts]; [lines, np] is returned.
RECURSIVE PtsLoop(_, _, _, _, _)
PtsLoop(k, end, np, cur, lines) ==
    IF k >= end
    THEN [lines |-> IF np # 0 THEN Append(lines, cur) ELSE lines, np |-> np]
    ELSE LET c == IF np = 0 THEN [indent |-> TRUE, pts |-> <<k>>]
                  ELSE [cur EXCEPT !.pts = Append(@, k)]
         IN IF np + 1 > 6
            THEN PtsLoop(k + 1, end, 0, [indent |-> FALSE, pts |-> <<>>],
                         Append(lines, c))
            ELSE PtsLoop(k + 1, end, np + 1, c, lines)

PtsBlock(first, end, np) ==
    PtsLoop(first, end, np, [indent |-> FALSE, pts |-> <<>>], <<>>)

\* Mutant of Keepouts: every hole runs to the end of the point list.
RECURSIVE Keepouts_ToEnd(_, _, _, _, _, _, _)
Keepouts_ToEnd(poly, g, h, np, net_id, layername, out) ==
    IF h >= Len(poly.HoleIndex) THEN out
    ELSE LET b == PtsBlock(poly.HoleIndex[h + 1], poly.PointN, np)
         IN Keepouts_ToEnd(poly, g, h + 1, b.np, net_id, layername,
                           Append(out, [kind |-> "keepout", obj |-> g, hole |-> h,
                                        net_id |-> net_id, layer |-> layername,
                                        uuid |-> NoUuid, lines |-> b.lines]))

\* The loop over the holes of polygon g, whose data is poly.
RECURSIVE Keepouts(_, _, _, _, _, _, _)
Keepouts(poly, g, h, np, net_id, layername, out) ==
    IF h >= Len(poly.HoleIndex) THEN out
    ELSE LET EndPointN == IF h + 1 < Len(poly.HoleIndex)
                          THEN poly.HoleIndex[h + 2] ELSE poly.PointN
             b == PtsBlock(poly.HoleIndex[h + 1], EndPointN, np)
         IN Keepouts(poly, g, h + 1, b.np, net_id, layername,
                     Append(out, [kind |-> "keepout", obj |-> g, hole |-> h,
                                  net_id |-> net_id, layer |-> layername,
                                  uuid |-> NoUuid, lines |-> b.lines]))

\* The body of the POLYGON_LOOP for polygon g, whose data is poly.
ZoneBlocks(poly, g, desc, layername) ==
    LET PointN == IF Len(poly.HoleIndex) > 0 THEN poly.HoleIndex[1]
                  ELSE poly.PointN
        b == PtsBlock(0, PointN, 0)
    IN Keepouts(poly, g, 0, b.np, desc.net_id, layername,
                <<[kind |-> "zone", obj |-> g, net_id |-> desc.net_id,
                   net_name |-> desc.net_name, layer |-> layername,
                   uuid |-> NoUuid, lines |-> b.lines]>>)

ZoneItems(g, desc, layername) == ZoneBlocks(Polygons[g], g, desc, layername)

\* The layer name and whether the layer is printed as copper; skip when
\* the switch falls into the default branch.
LayerClass(layer, layeridx) ==
    LET group == GetLayerGroupNumberByNumber(layeridx)
        top == group = GetLayerGroupNumberBySide(TOP_SIDE)
        bottom == group = GetLayerGroupNumberBySide(BOTTOM_SIDE)
    IN CASE layer.Type = LT_SILK ->
              [skip |-> FALSE, is_copper |-> FALSE,
               layername |-> IF top THEN <<"F.SilkS">>
                             ELSE IF bottom THEN <<"B.SilkS">> ELSE <<"F.Cu">>]
         [] layer.Type = LT_OUTLINE ->
              [skip |-> FALSE, is_copper |-> FALSE, layername |-> <<"Edge.Cuts">>]
         [] layer.Type = LT_COPPER ->
              IF top THEN [skip |-> FALSE, is_copper |-> TRUE, layername |-> <<"F.Cu">>]
              ELSE IF bottom
                   THEN [skip |-> FALSE, is_copper |-> TRUE, layername |-> <<"B.Cu">>]
              ELSE IF layer.Name = <<"o","u","t","l","i","n","e">>
                   THEN [skip |-> FALSE, is_copper |-> FALSE,
                         layername |-> <<"Edge.Cuts">>]
              ELSE [skip |-> FALSE, is_copper |-> TRUE,
                    layername |-> <<"In", group, ".Cu">>]
         [] OTHER ->      \* case LT_NOTES has no break
              [skip |-> TRUE, is_copper |-> FALSE,
               layername |-> IF layer.Type = LT_NOTES THEN <<"Cmts.User">>
                             ELSE <<"F.Cu">>]

NetItems(kind, objs, assign, num, descs, layername) ==
    [i \in 1..Len(objs) |->
       [kind |-> kind, obj |-> objs[i], layer |-> layername,
        net_id |-> DescOf(descs, kicad_get_net_assign(assign, num, objs[i])).net_id,
        uuid |-> NoUuid]]

RECURSIVE AllZones(_, _, _, _, _)
AllZones(gs, assign, num, descs, layername) ==
    IF gs = <<>> THEN <<>>
    ELSE ZoneItems(Head(gs),
                   DescOf(descs, kicad_get_net_assign(assign, num, Head(gs))),
                   layername)
           \o AllZones(Tail(gs), assign, num, descs, layername)

GraphicItems(kind, objs, layername) ==
    [i \in 1..Len(objs) |->
       [kind |-> kind, obj |-> objs[i], layer |-> layername, uuid |-> NoUuid]]

\* What one pass of the LAYER_LOOP body prints.
LayerItems(layer, layeridx, assign, num, descs) ==
    LET c == LayerClass(layer, layeridx)
    IN IF c.skip THEN <<>>
       ELSE IF c.is_copper
            THEN NetItems("segment", layer.Line, assign, num, descs, c.layername)
                   \o NetItems("arc", layer.Arc, assign, num, descs, c.layername)
                   \o AllZones(layer.Polygon, assign, num, descs, c.layername)
       ELSE GraphicItems("gr_line", layer.Line, c.layername)
              \o GraphicItems("gr_arc", layer.Arc, c.layername)
              \o GraphicItems("gr_text", layer.Text, c.layername)


\* ------------------------------------------------------------- the export
\* The parentheses a block leaves open: kicad_header opens "(kicad_pcb" and
\* the footprint header "(footprint", which the end of the ELEMENT_LOOP body
\* and the last fprintf close; every other format string is balanced.
ParenDelta(item) ==
    CASE item.kind \in {"header", "footprint"} -> 1
      [] item.kind \in {"footprint_end", "end"} -> -1
      [] OTHER -> 0

\* A line of the log: the message and its arguments.
LogEntry(msg, name, type, nums) ==
    [msg |-> msg, name |-> name, type |-> type, nums |-> nums]

NAME(el, k) == el.Name[k + 1]

NetState == [flags |-> flags,
             T |-> [assign |-> kicad_net_assign.mem, num |-> kicad_num_net_assign,
                    max |-> kicad_max_net_assign]]

SetNetState(S) ==
    /\ flags' = S.flags
    /\ kicad_net_assign' = [kicad_net_assign EXCEPT !.mem = S.T.assign]
    /\ kicad_num_net_assign' = S.T.num
    /\ kicad_max_net_assign' = S.T.max

Emit(items) ==
    /\ doc' = doc \o Stamp(items, rand_state)
    /\ rand_state' = rand_state + UuidRandCalls * UuidCount(items)

board == <<Menu, touching, Data>>
rotation == <<rot_element, theta>>
standalone == <<arg, ret>>

\* kicad_do_export up to the fopen of kicad_print: the two tables are
\* allocated and the assignment globals set.
Enter ==
    /\ pc \in {"idle", "done"}
    /\ exports < MaxExports
    /\ exports' = exports + 1
    /\ heap' = [descs |-> heap.descs + 1, assign |-> heap.assign + 1]
    /\ kicad_net_assign' = [null |-> FALSE, mem |-> <<>>]
    /\ kicad_num_net_assign' = 0
    /\ kicad_max_net_assign' = NetAssignInitial
    /\ prevDoc' = IF fp = "closed" THEN <<doc>> ELSE prevDoc
    /\ entryFlags' = flags
    /\ lookups' = 0
    /\ calls' = <<>>

\* Mutants of kicad_print_return.
kicad_print_return_swapped(opened) == IF opened THEN 1 ELSE 0
kicad_print_return_always0(opened) == 0

\* Mutant of ClearExportFlags: the visited markers are left on the board.
ClearExportFlags_None(fl) == fl

\* What kicad_print returns: 1 right after the failed fopen, 0 at its end.
kicad_print_return(opened) == IF opened THEN 0 ELSE 1

\* The flag bits kicad_print clears before it returns 0.
ClearExportFlags(fl) == ClearFlagOnAllObjects(VISITFLAG, fl)

\* fopen fails: kicad_print logs and returns 1, kicad_do_export restores the
\* layer visibility and returns.
ExportOpenFail ==
    /\ Enter
    /\ fp' = "NULL"
    /\ log' = <<LogEntry("Cannot open file %s for writing", <<>>, "", <<>>)>>
    /\ doc' = <<>>
    /\ net_descs' = <<>>
    /\ max_net_descs' = 0
    /\ print_ret' = <<kicad_print_return(FALSE)>>
    /\ export_ret' = <<>>
    /\ pc' = "done"
    /\ UNCHANGED <<board, flags, ei, li, rot, rand_state, rotation, standalone>>

\* fopen succeeds: the header, the page, the layer table and the net table.
ExportBegin ==
    /\ Enter
    /\ fp' = "open"
    /\ log' = <<>>
    /\ LET D == NetTable(NetZero([descs |-> <<>>, max |-> NetDescsInitial,
                                  out |-> <<>>]), Menu, 0, 1)
       IN /\ net_descs' = D.descs
          /\ max_net_descs' = D.max
          /\ doc' = <<[kind |-> "header"], [kind |-> "paper"],
                      [kind |-> "layers"]>> \o D.out
    /\ print_ret' = <<>>
    /\ export_ret' = <<>>
    /\ ei' = 1
    /\ li' = 1
    /\ pc' = IF Len(Data.Element) > 0 THEN "footprint"
             ELSE IF Len(Data.Via) > 0 THEN "vias" ELSE "layers"
    /\ UNCHANGED <<board, flags, rot, rand_state, rotation, standalone>>

AfterPins(el) == IF Len(el.Pad) > 0 THEN "pads" ELSE "elem_end"
AfterHeader(el) == IF Len(el.Pin) > 0 THEN "pins" ELSE AfterPins(el)

\* The head of the ELEMENT_LOOP body: the rotation, the footprint header and
\* the three text properties.
FootprintItems(el, r) ==
    LET onsolder == el.ONSOLDERFLAG
        clayer == IF onsolder THEN <<"B.Cu">> ELSE <<"F.Cu">>
        slayer == IF onsolder THEN <<"B.SilkS">> ELSE <<"F.SilkS">>
        flayer == IF onsolder THEN <<"B.Fab">> ELSE <<"F.Fab">>
        trot == IF onsolder THEN 180 - NAME(el, 1).Direction * 90
                ELSE NAME(el, 1).Direction * 90
    IN << [kind |-> "footprint", name |-> NAME(el, 0).TextString,
           layer |-> clayer, uuid |-> NoUuid, rot |-> r],
          [kind |-> "property", key |-> "Reference",
           text |-> NAME(el, 1).TextString, angle |-> trot, layer |-> slayer,
           uuid |-> NoUuid, mirror |-> onsolder],
          [kind |-> "property", key |-> "Value",
           text |-> NAME(el, 2).TextString,
           angle |-> NAME(el, 2).Direction * 90, layer |-> flayer,
           uuid |-> NoUuid],
          [kind |-> "property", key |-> "Footprint",
           text |-> NAME(el, 0).TextString,
           angle |-> NAME(el, 2).Direction * 90, layer |-> flayer,
           uuid |-> NoUuid] >>

PrintFootprint ==
    /\ pc = "footprint"
    /\ LET el == Data.Element[ei]
           r == kicad_get_rotation(el)
       IN /\ rot' = r
          /\ Emit(FootprintItems(el, r))
          /\ pc' = AfterHeader(el)
    /\ li' = 1
    /\ UNCHANGED <<board, flags, kicad_net_assign, kicad_num_net_assign,
                   kicad_max_net_assign, net_descs, max_net_descs, heap, fp,
                   log, ei, print_ret, export_ret, exports, prevDoc, calls,
                   lookups, entryFlags, rotation, standalone>>

\* TEST_ANY_THERMS: a thermal style is set on some layer.
TEST_ANY_THERMS(o) == \E l \in 1..Len(o.Therm) : o.Therm[l] # 0
GET_THERM(l, o) == o.Therm[l + 1]

\* The loop over the copper layers that picks the zone connection of a pin:
\* [thermal, log].
RECURSIVE ThermalScan(_, _, _)
ThermalScan(pin, l, lg) ==
    IF l >= max_copper_layer THEN [thermal |-> 1, log |-> lg]
    ELSE LET tstyle == GET_THERM(l, pin)
             lg2 == Append(lg, LogEntry("Thermal on layer %d - Type: %d", <<>>,
                                        "", <<l, tstyle>>))
         IN IF tstyle = 0 THEN ThermalScan(pin, l + 1, lg2)
            ELSE [thermal |-> IF tstyle = 3 THEN 2 ELSE 1, log |-> lg2]

\* What the PIN_LOOP prints and logs for the thermals of a pin:
\* (zone_connect %d) and (thermal_gap %f), the gap being clear / 2.
PinThermal(pin) ==
    IF TEST_ANY_THERMS(pin)
    THEN LET s == ThermalScan(pin, 0, <<LogEntry("Pin with thermal", <<>>, "", <<>>)>>)
         IN [fields |-> <<[zone_connect |-> s.thermal,
                           thermal_gap |-> [num |-> pin.Clearance, den |-> 2]]>>,
             log |-> s.log]
    ELSE [fields |-> <<>>, log |-> <<>>]

\* The layers of a pad block: every copper layer for a pin, the side of the
\* pad for a pad.
PadLayers(o, padkind) ==
    IF padkind = "thru_hole" THEN <<"*.Cu", "*.Mask">>
    ELSE IF o.ONSOLDERFLAG THEN <<"B.Cu", "B.Paste", "B.Mask">>
    ELSE <<"F.Cu", "F.Paste", "F.Mask">>

\* A pad block; thermal holds the zone_connect and thermal_gap fields, if
\* they are printed.
PadItem(o, padkind, desc, thermal) ==
    [kind |-> "pad", obj |-> o.id, number |-> o.Number, type |-> padkind,
     layers |-> PadLayers(o, padkind), thermal |-> thermal,
     net_id |-> desc.net_id, net_name |-> desc.net_name, uuid |-> NoUuid]

\* One pass of the PIN_LOOP body.
PrintPin ==
    /\ pc = "pins"
    /\ LET el == Data.Element[ei]
           pin == el.Pin[li]
           R == ResolveNet(NetState, NAME(el, 1).TextString, pin, Menu, touching)
       IN /\ SetNetState(R.S)
          /\ calls' = calls \o R.call
          /\ lookups' = lookups + Len(R.call)
          /\ Emit(<<PadItem(pin, "thru_hole", DescOf(net_descs, R.net),
                             PinThermal(pin).fields)>>)
          /\ log' = log \o PinThermal(pin).log
          /\ IF li < Len(el.Pin)
             THEN li' = li + 1 /\ pc' = "pins"
             ELSE li' = 1 /\ pc' = AfterPins(el)
    /\ UNCHANGED <<board, net_descs, max_net_descs, heap, fp, ei, rot,
                   print_ret, export_ret, exports, prevDoc, entryFlags,
                   rotation, standalone>>

\* One pass of the PAD_LOOP body: a pad without thickness is passed over.
\* The PAD_LOOP does not look at the thermals of the pad.
PrintPad ==
    /\ pc = "pads"
    /\ LET el == Data.Element[ei]
           pad == el.Pad[li]
           R == ResolveNet(NetState, NAME(el, 1).TextString, pad, Menu, touching)
       IN /\ IF pad.Thickness > 0
             THEN /\ SetNetState(R.S)
                  /\ calls' = calls \o R.call
                  /\ lookups' = lookups + Len(R.call)
                  /\ Emit(<<PadItem(pad, "smd", DescOf(net_descs, R.net), <<>>)>>)
             ELSE UNCHANGED <<flags, kicad_net_assign, kicad_num_net_assign,
                              kicad_max_net_assign, calls, lookups, doc,
                              rand_state>>
          /\ IF li < Len(el.Pad)
             THEN li' = li + 1 /\ pc' = "pads"
             ELSE li' = 1 /\ pc' = "elem_end"
    /\ UNCHANGED <<board, net_descs, max_net_descs, heap, fp, log, ei, rot,
                   print_ret, export_ret, exports, prevDoc, entryFlags,
                   rotation, standalone>>

\* The ELEMENTLINE_LOOP and the end of the footprint block.
PrintElementEnd ==
    /\ pc = "elem_end"
    /\ LET el == Data.Element[ei]
           slayer == IF el.ONSOLDERFLAG THEN <<"B.SilkS">> ELSE <<"F.SilkS">>
       IN Emit(GraphicItems("fp_line", el.Line, slayer)
                  \o <<[kind |-> "footprint_end"]>>)
    /\ li' = 1
    /\ IF ei < Len(Data.Element)
       THEN ei' = ei + 1 /\ pc' = "footprint"
       ELSE ei' = ei /\ pc' = IF Len(Data.Via) > 0 THEN "vias" ELSE "layers"
    /\ UNCHANGED <<board, flags, kicad_net_assign, kicad_num_net_assign,
                   kicad_max_net_assign, net_descs, max_net_descs, heap, fp,
                   log, rot, print_ret, export_ret, exports, prevDoc, calls,
                   lookups, entryFlags, rotation, standalone>>

\* One pass of the VIA_LOOP body.
PrintVia ==
    /\ pc = "vias"
    /\ LET net == kicad_get_net_assign(kicad_net_assign.mem,
                                       kicad_num_net_assign, Data.Via[li])
       IN Emit(<<[kind |-> "via", obj |-> Data.Via[li],
                   net_id |-> DescOf(net_descs, net).net_id, uuid |-> NoUuid]>>)
    /\ IF li < Len(Data.Via)
       THEN li' = li + 1 /\ pc' = "vias"
       ELSE li' = 1 /\ pc' = "layers"
    /\ UNCHANGED <<board, flags, kicad_net_assign, kicad_num_net_assign,
                   kicad_max_net_assign, net_descs, max_net_descs, heap, fp,
                   log, ei, rot, print_ret, export_ret, exports, prevDoc,
                   calls, lookups, entryFlags, rotation, standalone>>

\* One pass of the LAYER_LOOP body.
PrintLayer ==
    /\ pc = "layers"
    /\ li <= Len(Data.Layer)
    /\ LET layer == Data.Layer[li]
           c == LayerClass(layer, li - 1)
       IN /\ Emit(LayerItems(layer, li - 1, kicad_net_assign.mem,
                              kicad_num_net_assign, net_descs))
          /\ log' = log \o <<LogEntry("Processing layer %s - Type: %d",
                                       layer.Name, layer.Type, <<>>)>>
                        \o (IF c.skip
                            THEN <<LogEntry("Unsupported layer type %d, skipping",
                                            <<>>, layer.Type, <<>>)>>
                            ELSE <<>>)
    /\ li' = li + 1
    /\ UNCHANGED <<board, flags, kicad_net_assign, kicad_num_net_assign,
                   kicad_max_net_assign, net_descs, max_net_descs, heap, fp,
                   pc, ei, rot, print_ret, export_ret, exports, prevDoc,
                   calls, lookups, entryFlags, rotation, standalone>>

\* The closing marker and the cleanup of kicad_print; kicad_do_export
\* restores the layer visibility and returns.
ExportEnd ==
    /\ pc = "layers"
    /\ li > Len(Data.Layer)
    /\ Emit(<<[kind |-> "end"]>>)
    /\ flags' = ClearExportFlags(flags)
    /\ heap' = [descs |-> heap.descs - 1, assign |-> heap.assign - 1]
    /\ kicad_net_assign' = [null |-> TRUE, mem |-> <<>>]
    /\ kicad_max_net_assign' = 0
    /\ net_descs' = <<>>
    /\ max_net_descs' = 0
    /\ fp' = "closed"
    /\ print_ret' = <<kicad_print_return(TRUE)>>
    /\ export_ret' = <<>>
    /\ pc' = "done"
    /\ UNCHANGED <<board, kicad_num_net_assign, log, ei, li, rot, exports,
                   prevDoc, calls, lookups, entryFlags, rotation, standalone>>

Init ==
    /\ Menu \in Netlists
    /\ Data \in Boards
    /\ touching \in (IF Data.Element = <<>> THEN {{}} ELSE SUBSET CandidateTouch)
    /\ arg = <<>>
    /\ ret = <<>>
    /\ flags = [o \in Objects |-> {}]
    /\ kicad_net_assign = [null |-> TRUE, mem |-> <<>>]
    /\ kicad_num_net_assign = 0
    /\ kicad_max_net_assign = 0
    /\ net_descs = <<>>
    /\ max_net_descs = 0
    /\ heap = [descs |-> 0, assign |-> 0]
    /\ fp = "none"
    /\ doc = <<>>
    /\ log = <<>>
    /\ pc = "idle"
    /\ ei = 1
    /\ li = 1
    /\ rot = Deg(0)
    /\ print_ret = <<>>
    /\ export_ret = <<>>
    /\ exports = 0
    /\ rand_state = 0
    /\ prevDoc = <<>>
    /\ calls = <<>>
    /\ lookups = 0
    /\ entryFlags = [o \in Objects |-> {}]
    /\ rot_element = Element1
    /\ theta = <<>>

Next ==
    \/ ExportOpenFail
    \/ ExportBegin
    \/ PrintFootprint
    \/ PrintPin
    \/ PrintPad
    \/ PrintElementEnd
    \/ PrintVia
    \/ PrintLayer
    \/ ExportEnd

Spec == Init /\ [][Next]_vars


\* ------------------------------------- exports of a board with flags set
\* The exports of the full board when the host has left VISITFLAG or
\* FOUNDFLAG on some of its objects before the first one.
EntryFlagChoices ==
    {[o \in Objects |-> (IF o \in V THEN {VISITFLAG} ELSE {})
                          \cup (IF o \in F THEN {FOUNDFLAG} ELSE {})] :
       V \in {{}, {"p11"}, {"p21", "l1"}}, F \in {{}, {"p12", "v1"}}}

InitFlags ==
    /\ Menu \in Netlists
    /\ Data = FullData
    /\ touching \in {{}, CandidateTouch}
    /\ arg = <<>>
    /\ ret = <<>>
    /\ flags \in EntryFlagChoices
    /\ kicad_net_assign = [null |-> TRUE, mem |-> <<>>]
    /\ kicad_num_net_assign = 0
    /\ kicad_max_net_assign = 0
    /\ net_descs = <<>>
    /\ max_net_descs = 0
    /\ heap = [descs |-> 0, assign |-> 0]
    /\ fp = "none"
    /\ doc = <<>>
    /\ log = <<>>
    /\ pc = "idle"
    /\ ei = 1
    /\ li = 1
    /\ rot = Deg(0)
    /\ print_ret = <<>>
    /\ export_ret = <<>>
    /\ exports = 0
    /\ rand_state = 0
    /\ prevDoc = <<>>
    /\ calls = <<>>
    /\ lookups = 0
    /\ entryFlags = flags
    /\ rot_element = Element1
    /\ theta = <<>>

SpecFlags == InitFlags /\ [][Next]_vars

\* ------------------------------------------- kicad_add_net on its own
\* One export pass in which kicad_add_net is called with any seed, any net
\* and any result of the connectivity lookup.
FoundSets ==
    { {"p11", "l1", "a1"}, {"p21", "l1", "g1", "v1"}, {"d21", "a1", "l1"},
      {"p12", "v1", "g1"}, {"d21"} }

AddNetNets == {NULL, 1, 2}

InitAddNet ==
    /\ Menu = <<>>
    /\ touching = {}
    /\ Data = FullData
    /\ arg = <<>>
    /\ ret = <<>>
    /\ flags \in {[o \in Objects |-> IF o \in F THEN {FOUNDFLAG} ELSE {}]
                    : F \in {{}, {"v1", "l1"}}}
    /\ kicad_net_assign = [null |-> FALSE, mem |-> <<>>]
    /\ kicad_num_net_assign = 0
    /\ kicad_max_net_assign = NetAssignInitial
    /\ net_descs = <<>>
    /\ max_net_descs = 0
    /\ heap = [descs |-> 1, assign |-> 1]
    /\ fp = "open"
    /\ doc = <<>>
    /\ log = <<>>
    /\ pc = "add_net"
    /\ ei = 1
    /\ li = 1
    /\ rot = Deg(0)
    /\ print_ret = <<>>
    /\ export_ret = <<>>
    /\ exports = 1
    /\ rand_state = 0
    /\ prevDoc = <<>>
    /\ calls = <<>>
    /\ lookups = 0
    /\ entryFlags = flags
    /\ rot_element = Element1
    /\ theta = <<>>

AddNetCall ==
    /\ pc = "add_net"
    /\ Len(calls) < MaxAddNetCalls
    /\ \E found \in FoundSets, net \in AddNetNets :
         \E ptr \in found \cap (PinIds \cup PadIds) :
           /\ SetNetState(kicad_add_net(NetState, found, net))
           /\ calls' = Append(calls, [ptr |-> ptr, net |-> net, found |-> found])
    /\ lookups' = lookups + 1
    /\ UNCHANGED <<board, net_descs, max_net_descs, heap, fp, doc, log, pc, ei,
                   li, rot, print_ret, export_ret, exports, rand_state,
                   prevDoc, entryFlags, rotation, standalone>>

SpecAddNet == InitAddNet /\ [][AddNetCall]_vars

\* --------------------------------------------- kicad_get_rotation on its own
AttrAlphabet == {" ", "-", "+", "9", "0", "5", ".", "x"}
AttrStrings == UNION {[1..k -> AttrAlphabet] : k \in 0..MaxAttrLen}

Coords == (0 - MaxCoord)..MaxCoord

\* An element with its mark at (1, 1) whose first pin or pad, numbered num1,
\* lies (x, y) from the mark (a pad half a unit further right); sec gives
\* the number and the column of its second pin.
RotElementOf(shape, num1, x, y, onsolder, attr, sec) ==
    LET first == [id |-> "q1", Number |-> num1, X |-> 1 + x, Y |-> 1 + y]
        second == [id |-> "q2", Number |-> sec.Number, X |-> sec.X, Y |-> 1]
        third == [id |-> "q3", Number |-> <<"7">>, X |-> 1, Y |-> 6]
        pad == [id |-> "q1", Number |-> num1, Thickness |-> 1,
                Point1 |-> [X |-> 1 + x, Y |-> 1 + y],
                Point2 |-> [X |-> 2 + x, Y |-> 1 + y]]
    IN [Name |-> Element1.Name, MarkX |-> 1, MarkY |-> 1,
        ONSOLDERFLAG |-> onsolder, Attributes |-> attr, Line |-> <<>>,
        Pin |-> CASE shape = "pins3" -> <<first, second, third>>
                  [] shape = "pins2" -> <<first, second>>
                  [] shape = "pin1" -> <<first>>
                  [] shape = "pads3" -> <<second, third>>,
        Pad |-> IF shape = "pads3" THEN <<pad>> ELSE <<>>]

RotShapes == {"pins3", "pins2", "pin1", "pads3"}
RotFirstNumbers == {<<"1">>, <<"A", "1">>, <<"9">>}

\* The second pin: "2" off the mark, "2" on the mark, or no reference pin.
RotSeconds ==
    { [Number |-> <<"2">>, X |-> 3], [Number |-> <<"2">>, X |-> 1],
      [Number |-> <<"8">>, X |-> 3] }

RotElements ==
    {RotElementOf(shape, num1, x, y, onsolder, NoAttribute, sec) :
       shape \in RotShapes, num1 \in RotFirstNumbers, x \in Coords,
       y \in Coords, onsolder \in BOOLEAN, sec \in RotSeconds}
    \cup {RotElementOf("pins3", <<"1">>, 2, -1, FALSE, attr,
                       [Number |-> <<"2">>, X |-> 3]) : attr \in AttrStrings}

InitRot ==
    /\ rot_element \in RotElements
    /\ theta = <<>>
    /\ pc = "rotation"
    /\ Menu = <<>>
    /\ touching = {}
    /\ Data = FullData
    /\ arg = <<>>
    /\ ret = <<>>
    /\ flags = [o \in Objects |-> {}]
    /\ kicad_net_assign = [null |-> TRUE, mem |-> <<>>]
    /\ kicad_num_net_assign = 0
    /\ kicad_max_net_assign = 0
    /\ net_descs = <<>>
    /\ max_net_descs = 0
    /\ heap = [descs |-> 0, assign |-> 0]
    /\ fp = "none"
    /\ doc = <<>>
    /\ log = <<>>
    /\ ei = 1
    /\ li = 1
    /\ rot = Deg(0)
    /\ print_ret = <<>>
    /\ export_ret = <<>>
    /\ exports = 0
    /\ rand_state = 0
    /\ prevDoc = <<>>
    /\ calls = <<>>
    /\ lookups = 0
    /\ entryFlags = flags

GetRotation ==
    /\ pc = "rotation"
    /\ theta = <<>>
    /\ theta' = <<kicad_get_rotation(rot_element)>>
    /\ UNCHANGED <<board, flags, kicad_net_assign, kicad_num_net_assign,
                   kicad_max_net_assign, net_descs, max_net_descs, heap, fp,
                   doc, log, pc, ei, li, rot, print_ret, export_ret, exports,
                   rand_state, prevDoc, calls, lookups, entryFlags,
                   rot_element, standalone>>

SpecRot == InitRot /\ [][GetRotation]_vars

\* ------------------------------------------------ functions called alone
\* The state in which no export is under way.
Quiescent ==
    /\ Menu = <<>>
    /\ touching = {}
    /\ Data = FullData
    /\ flags = [o \in Objects |-> {}]
    /\ kicad_net_assign = [null |-> TRUE, mem |-> <<>>]
    /\ kicad_num_net_assign = 0
    /\ kicad_max_net_assign = 0
    /\ net_descs = <<>>
    /\ max_net_descs = 0
    /\ heap = [descs |-> 0, assign |-> 0]
    /\ fp = "none"
    /\ doc = <<>>
    /\ log = <<>>
    /\ ei = 1
    /\ li = 1
    /\ rot = Deg(0)
    /\ print_ret = <<>>
    /\ export_ret = <<>>
    /\ exports = 0
    /\ rand_state = 0
    /\ prevDoc = <<>>
    /\ calls = <<>>
    /\ lookups = 0
    /\ entryFlags = flags
    /\ rot_element = Element1
    /\ theta = <<>>

export == <<board, flags, kicad_net_assign, kicad_num_net_assign,
            kicad_max_net_assign, net_descs, max_net_descs, heap, fp, doc,
            log, ei, li, rot, print_ret, export_ret, exports, rand_state,
            prevDoc, calls, lookups, entryFlags, rotation>>

\* The sector chain of xyToAngle for every angle of [-180, 180].
AngleArgs ==
    {[d |-> [kind |-> "steps", steps |-> k], morethan2pins |-> m] :
       k \in (0 - 180 * AngleSteps)..(180 * AngleSteps), m \in BOOLEAN}

InitAngle ==
    /\ Quiescent
    /\ pc = "angle"
    /\ arg \in AngleArgs
    /\ ret = <<>>

ClassifyAngle ==
    /\ pc = "angle"
    /\ ret = <<>>
    /\ ret' = <<AngleSector(arg.d, arg.morethan2pins)>>
    /\ UNCHANGED <<export, pc, arg>>

SpecAngle == InitAngle /\ [][ClassifyAngle]_vars

\* The POLYGON_LOOP body for every polygon of up to MaxPoints points and
\* MaxHoles holes; the hole indices increase and lie inside the point list.
HoleIndices(PointN) ==
    {hs \in UNION {[1..k -> 0..(PointN - 1)] : k \in 0..MaxHoles} :
       \A i \in 1..(Len(hs) - 1) : hs[i] < hs[i + 1]}

PolygonShapes ==
    UNION {{[PointN |-> n, HoleIndex |-> hs] : hs \in HoleIndices(n)}
             : n \in 0..MaxPoints}

InitZone ==
    /\ Quiescent
    /\ pc = "zone"
    /\ arg \in PolygonShapes
    /\ ret = <<>>

PrintZone ==
    /\ pc = "zone"
    /\ ret = <<>>
    /\ ret' = <<ZoneBlocks(arg, "g1", ZeroDesc, <<"F.Cu">>)>>
    /\ UNCHANGED <<export, pc, arg>>

SpecZone == InitZone /\ [][PrintZone]_vars

\* GetLayerGroupNumberByNumber for every table of up to MaxGroups used groups
\* over the layers 0 .. MaxGroupLayer, and one layer number more; the entries
\* of a group are listed in increasing order.
GroupEntries ==
    {e \in UNION {[1..n -> 0..MaxGroupLayer] : n \in 0..(MaxGroupLayer + 1)} :
       \A i \in 1..(Len(e) - 1) : e[i] < e[i + 1]}

GroupTables == UNION {[1..g -> GroupEntries] : g \in 0..MaxGroups}

InitGroup ==
    /\ Quiescent
    /\ pc = "group"
    /\ arg \in {[Groups |-> G, Layer |-> l] :
                 G \in GroupTables, l \in 0..(MaxGroupLayer + 1)}
    /\ ret = <<>>

LookupGroup ==
    /\ pc = "group"
    /\ ret = <<>>
    /\ ret' = <<GroupScan(arg.Groups, 0, arg.Layer)>>
    /\ UNCHANGED <<export, pc, arg>>

SpecGroup == InitGroup /\ [][LookupGroup]_vars

\* ------------------------------- kicad_add_net_assign on its own
\* An export pass whose table holds up to MaxAssignAdds entries less than its
\* first capacity: entry i is the object at address i.  Objects at further
\* addresses are added, each once.
Prefill(i) == [item |-> i, net |-> (i % 3) - 1]

AssignItems == {2 * NetAssignInitial + j : j \in 1..MaxAssignAdds}

InitAssign ==
    /\ Menu = <<>>
    /\ touching = {}
    /\ Data = FullData
    /\ flags = [o \in Objects |-> {}]
    /\ \E k \in 0..MaxAssignAdds :
         /\ arg = [start |-> NetAssignInitial - k]
         /\ kicad_net_assign = [null |-> FALSE,
                                mem |-> [i \in 1..(NetAssignInitial - k) |-> Prefill(i)]]
         /\ kicad_num_net_assign = NetAssignInitial - k
    /\ kicad_max_net_assign = NetAssignInitial
    /\ ret = <<>>
    /\ net_descs = <<>>
    /\ max_net_descs = 0
    /\ heap = [descs |-> 1, assign |-> 1]
    /\ fp = "open"
    /\ doc = <<>>
    /\ log = <<>>
    /\ pc = "assign"
    /\ ei = 1
    /\ li = 1
    /\ rot = Deg(0)
    /\ print_ret = <<>>
    /\ export_ret = <<>>
    /\ exports = 1
    /\ rand_state = 0
    /\ prevDoc = <<>>
    /\ calls = <<>>
    /\ lookups = 0
    /\ entryFlags = flags
    /\ rot_element = Element1
    /\ theta = <<>>

AssignAdd ==
    /\ pc = "assign"
    /\ Len(calls) < MaxAssignAdds
    /\ \E item \in AssignItems, net \in {NULL, 0, 1} :
         /\ \A k \in 1..Len(calls) : calls[k].item # item
         /\ SetNetState([NetState EXCEPT
                           !.T = kicad_add_net_assign(NetState.T, item, net)])
         /\ calls' = Append(calls, [item |-> item, net |-> net])
    /\ UNCHANGED <<board, net_descs, max_net_descs, heap, fp, doc, log, pc, ei,
                   li, rot, print_ret, export_ret, exports, rand_state, prevDoc,
                   lookups, entryFlags, rotation, standalone>>

SpecAssign == InitAssign /\ [][AssignAdd]_vars

\* -------------------------------------------------------- bounding boxes
MIN(a, b) == IF a < b THEN a ELSE b
MAX(a, b) == IF a > b THEN a ELSE b

\* RightAngles (Angle, &cosa, &sina) for an angle that is a multiple of 90
\* degrees; the float values differ from these by less than 1e-15, which the
\* float sums and the conversion to Location in the callers do not keep.
RightAngles(Angle) ==
    LET a == Angle % 360
    IN [cosa |-> (CASE a = 0 -> 1 [] a = 180 -> (0 - 1) [] OTHER -> 0),
        sina |-> (CASE a = 90 -> 1 [] a = 270 -> (0 - 1) [] OTHER -> 0)]

\* Width scales both coordinates; Height is not read.
GetArcEnds(Arc) ==
    LET s == RightAngles(Arc.StartAngle)
        e == RightAngles(Arc.StartAngle + Arc.Delta)
    IN [X1 |-> Arc.X - Arc.Width * s.cosa, Y1 |-> Arc.Y + Arc.Width * s.sina,
        X2 |-> Arc.X - Arc.Width * e.cosa, Y2 |-> Arc.Y + Arc.Width * e.sina]

\* The value stored in Arc->BoundingBox.
SetArcBoundingBox(Arc) ==
    LET box == GetArcEnds(Arc)
        width == Arc.Thickness \div 2
    IN [X1 |-> MIN(box.X1, box.X2) - width, Y1 |-> MIN(box.Y1, box.Y2) - width,
        X2 |-> MAX(box.X2, box.X1) + width, Y2 |-> MAX(box.Y2, box.Y1) + width]

VIA_TYPE == "VIA_TYPE"
PIN_TYPE == "PIN_TYPE"
LINE_TYPE == "LINE_TYPE"
PAD_TYPE == "PAD_TYPE"
ARC_TYPE == "ARC_TYPE"
ELEMENT_TYPE == "ELEMENT_TYPE"

\* The static box GetObjectBoundingBox returns for the object o of the type;
\* a text, a polygon and an arc hand out their stored box, and the names of
\* an element are Name[1 .. 3] with the name on the board second.
GetObjectBoundingBox(Type, o) ==
    CASE Type \in {VIA_TYPE, PIN_TYPE} ->
           [X1 |-> o.X - o.Thickness \div 2, Y1 |-> o.Y - o.Thickness \div 2,
            X2 |-> o.X + o.Thickness \div 2, Y2 |-> o.Y + o.Thickness \div 2]
      [] Type = LINE_TYPE ->
           [X1 |-> MIN(o.Point1.X, o.Point2.X) - o.Thickness \div 2,
            Y1 |-> MIN(o.Point1.Y, o.Point2.Y) - o.Thickness \div 2,
            X2 |-> MAX(o.Point1.X, o.Point2.X) + o.Thickness \div 2,
            Y2 |-> MAX(o.Point1.Y, o.Point2.Y) + o.Thickness \div 2]
      [] Type = PAD_TYPE ->
           [X1 |-> MIN(o.Point1.X, o.Point2.X) - o.Thickness,
            Y1 |-> MIN(o.Point1.Y, o.Point2.Y) - o.Thickness,
            X2 |-> MAX(o.Point1.X, o.Point2.X) + o.Thickness,
            Y2 |-> MAX(o.Point1.Y, o.Point2.Y) + o.Thickness]
      [] Type = ELEMENT_TYPE ->
           LET box == o.BoundingBox
               text == o.Name[2].BoundingBox
           IN [X1 |-> IF text.X1 < box.X1 THEN text.X1 ELSE box.X1,
               Y1 |-> IF text.Y1 < box.Y1 THEN text.Y1 ELSE box.Y1,
               X2 |-> IF text.X2 > box.X2 THEN text.X2 ELSE box.X2,
               Y2 |-> IF text.Y2 > box.Y2 THEN text.Y2 ELSE box.Y2]
      [] OTHER -> o.BoundingBox

\* One of the two for loops over the angles n*180 (axis "x", -cos) or
\* n*180+90 (axis "y", sin) below angle2; lim is [min, max].
RECURSIVE ArcSweep(_, _, _, _)
ArcSweep(axis, angle, angle2, lim) ==
    IF angle >= angle2 THEN lim
    ELSE LET u == IF axis = "x" THEN 0 - RightAngles(angle).cosa
                  ELSE RightAngles(angle).sina
         IN ArcSweep(axis, angle + 180, angle2,
                     [min |-> MIN(u, lim.min), max |-> MAX(u, lim.max)])

\* The body of the ARC_LOOP of SetElementBoundingBox: b with the extent of
\* the arc added; the thickness of the arc is not read.
ElementArcExtent(b, arc) ==
    LET angle1 == arc.StartAngle
        angle2 == arc.StartAngle + arc.Delta
        c1 == 0 - RightAngles(angle1).cosa
        c2 == 0 - RightAngles(angle2).cosa
        s1 == RightAngles(angle1).sina
        s2 == RightAngles(angle2).sina
        fx == ArcSweep("x", (angle1 \div 180 + 1) * 180, angle2,
                       [min |-> MIN(c1, c2), max |-> MAX(c1, c2)])
        fy == ArcSweep("y", ((angle1 + 90) \div 180) * 180 + 90, angle2,
                       [min |-> MIN(s1, s2), max |-> MAX(s1, s2)])
    IN [X1 |-> MIN(b.X1, fx.min * arc.Width + arc.X),
        Y1 |-> MIN(b.Y1, fy.min * arc.Height + arc.Y),
        X2 |-> MAX(b.X2, fx.max * arc.Width + arc.X),
        Y2 |-> MAX(b.Y2, fy.max * arc.Height + arc.Y)]

\* The bodies of the ELEMENTLINE_LOOP and of the first PAD_LOOP.
ElementLineExtent(b, line) ==
    [X1 |-> MIN(MIN(b.X1, line.Point1.X - line.Thickness \div 2),
                line.Point2.X - line.Thickness \div 2),
     Y1 |-> MIN(MIN(b.Y1, line.Point1.Y - line.Thickness \div 2),
                line.Point2.Y - line.Thickness \div 2),
     X2 |-> MAX(MAX(b.X2, line.Point1.X + line.Thickness \div 2),
                line.Point2.X + line.Thickness \div 2),
     Y2 |-> MAX(MAX(b.Y2, line.Point1.Y + line.Thickness \div 2),
                line.Point2.Y + line.Thickness \div 2)]

ElementPinExtent(b, pin) ==
    [X1 |-> MIN(b.X1, pin.X - pin.Thickness \div 2),
     Y1 |-> MIN(b.Y1, pin.Y - pin.Thickness \div 2),
     X2 |-> MAX(b.X2, pin.X + pin.Thickness \div 2),
     Y2 |-> MAX(b.Y2, pin.Y + pin.Thickness \div 2)]

\* A loop of SetElementBoundingBox over the objects s[i .. Len(s)].
RECURSIVE ExtentLoop(_, _, _, _)
ExtentLoop(kind, s, i, b) ==
    IF i > Len(s) THEN b
    ELSE ExtentLoop(kind, s, i + 1,
                    CASE kind = "pin" -> ElementPinExtent(b, s[i])
                      [] kind = "arc" -> ElementArcExtent(b, s[i])
                      [] OTHER -> ElementLineExtent(b, s[i]))

\* SetElementBoundingBox on an element whose three texts have their boxes
\* set: the box stored on the element and the EDGE2FLAG of every pad and of
\* the pins.
SetElementBoundingBox(Element) ==
    LET b == ExtentLoop("pad", Element.Pad, 1,
               ExtentLoop("arc", Element.Arc, 1,
                 ExtentLoop("pin", Element.Pin, 1,
                   ExtentLoop("line", Element.Line, 1,
                     [X1 |-> MAX_COORD, Y1 |-> MAX_COORD, X2 |-> 0, Y2 |-> 0]))))
    IN [BoundingBox |-> b,
        PadEdge2 |-> [i \in 1..Len(Element.Pad) |->
                        LET pad == Element.Pad[i]
                        IN IF pad.Point1.Y = pad.Point2.Y
                           THEN b.X2 - pad.Point2.X < pad.Point1.X - b.X1
                           ELSE b.Y2 - pad.Point2.Y < pad.Point1.Y - b.Y1],
        PinEdge2 |-> (b.X2 - b.X1) > (b.Y2 - b.Y1)]

\* The bounding-box functions called alone: GetObjectBoundingBox on a via, a
\* pin, a line or a pad, SetArcBoundingBox on an arc whose angles are
\* multiples of 90 degrees, and SetElementBoundingBox on an element of up to
\* one line, pin, arc and pad whose texts have their boxes set.
BoxPoints == {[X |-> 2, Y |-> 9], [X |-> 9, Y |-> 4], [X |-> 5, Y |-> 5]}

BoxPins ==
    {[X |-> p.X, Y |-> p.Y, Thickness |-> t] :
       p \in BoxPoints, t \in 0..MaxThickness}

BoxLines ==
    {[Point1 |-> p, Point2 |-> q, Thickness |-> t] :
       p \in BoxPoints, q \in BoxPoints, t \in 0..MaxThickness}

BoxArcs ==
    {[X |-> 10, Y |-> 10, Width |-> 4, Height |-> h, StartAngle |-> 90 * s,
      Delta |-> 90 * d, Thickness |-> t] :
       h \in {4, 6}, s \in 0..4, d \in 0..4, t \in {0, MaxThickness}}

BoxTexts ==
    {[BoundingBox |-> [X1 |-> 0, Y1 |-> 0, X2 |-> 3, Y2 |-> 2]],
     [BoundingBox |-> [X1 |-> 12, Y1 |-> 12, X2 |-> 20, Y2 |-> 16]]}

UpToOne(S) == {<<>>} \cup {<<x>> : x \in S}

BoxElements ==
    {[Line |-> l, Pin |-> p, Arc |-> a, Pad |-> d, Name |-> <<v, n, v>>] :
       l \in UpToOne({x \in BoxLines : x.Thickness = 2 /\ x.Point1.X < x.Point2.X}),
       p \in UpToOne({x \in BoxPins : x.Thickness = MaxThickness}),
       a \in UpToOne({x \in BoxArcs : x.Height = 4 /\ x.StartAngle < 360}),
       d \in UpToOne({x \in BoxLines : x.Thickness = 2 /\ x.Point1.Y <= x.Point2.Y}),
       n \in BoxTexts, v \in BoxTexts}

InitBox ==
    /\ Quiescent
    /\ ret = <<>>
    /\ \/ /\ pc = "box"
          /\ arg \in {[Type |-> T, o |-> o] : T \in {VIA_TYPE, PIN_TYPE}, o \in BoxPins}
                   \cup {[Type |-> T, o |-> o] : T \in {LINE_TYPE, PAD_TYPE}, o \in BoxLines}
       \/ /\ pc = "arcbox"
          /\ arg \in BoxArcs
       \/ /\ pc = "elementbox"
          /\ arg \in BoxElements

ObjectBox ==
    /\ pc = "box"
    /\ ret = <<>>
    /\ ret' = <<GetObjectBoundingBox(arg.Type, arg.o)>>
    /\ UNCHANGED <<export, pc, arg>>

ArcBox ==
    /\ pc = "arcbox"
    /\ ret = <<>>
    /\ ret' = <<SetArcBoundingBox(arg)>>
    /\ UNCHANGED <<export, pc, arg>>

ElementBox ==
    /\ pc = "elementbox"
    /\ ret = <<>>
    /\ ret' = <<SetElementBoundingBox(arg)>>
    /\ UNCHANGED <<export, pc, arg>>

SpecBox == InitBox /\ [][ObjectBox \/ ArcBox \/ ElementBox]_vars

\* kicad_uuid for streams of rand() values: the values lie in 0 .. RAND_MAX
\* and move away from a start value in equal steps.
RAND_MAX == 2147483647
RandStarts == {0, 1, 15, 16, 255, 32767, RAND_MAX - 15, RAND_MAX}
RandStream(start, step) ==
    [i \in 1..UuidRandCalls |->
       IF start >= RAND_MAX - 15 THEN start - step * (i - 1)
       ELSE start + step * (i - 1)]
RandStreams ==
    {RandStream(start, step) : start \in RandStarts, step \in 0..MaxRandStep}

InitUuid ==
    /\ Quiescent
    /\ pc = "uuid"
    /\ arg \in RandStreams
    /\ ret = <<>>

MakeUuid ==
    /\ pc = "uuid"
    /\ ret = <<>>
    /\ ret' = <<kicad_uuid_buffer(arg)>>
    /\ UNCHANGED <<export, pc, arg>>

SpecUuid == InitUuid /\ [][MakeUuid]_vars

\* ================================================================ properties
\* The net ids written to document d for board object o.
NetIdsOf(d, o) ==
    {d[i].net_id : i \in {j \in 1..Len(d) : /\ "obj" \in DOMAIN d[j]
                                             /\ "net_id" \in DOMAIN d[j]
                                             /\ d[j].obj = o}}

\* The net table of document d: its items of kind "net", in order.
NetTableOf(d) == SelectSeq(d, LAMBDA it : it.kind = "net")

Written == pc = "done" /\ fp = "closed"
OpenFailed == pc = "done" /\ fp = "NULL"

\* The connectivity key of the pin or pad with identifier o.
KeyOf(o) ==
    LET P == {<<x, i>> \in (1..Len(Elements)) \X (1..3) :
                \/ i <= Len(Elements[x].Pin) /\ Elements[x].Pin[i].id = o
                \/ i <= Len(Elements[x].Pad) /\ Elements[x].Pad[i].id = o}
        p == CHOOSE q \in P : TRUE
        el == Elements[p[1]]
        obj == IF p[2] <= Len(el.Pin) /\ el.Pin[p[2]].id = o
               THEN el.Pin[p[2]] ELSE el.Pad[p[2]]
    IN nodename(NAME(el, 1).TextString, obj.Number)

\* C2: at the end of an export pass every copper object the connectivity
\* lookup reports as reachable from a seed pin or pad carries, in the
\* document, the net id written for the seed.
C2_ConnectedShareNet ==
    Written =>
      \A k \in 1..Len(calls) :
        \A o \in LookupConnectionByPin(calls[k].ptr, touching) :
          \A a \in NetIdsOf(doc, calls[k].ptr) :
            \A b \in NetIdsOf(doc, o) : a = b

C2_Witness ==
    /\ Written
    /\ \E k \in 1..Len(calls) :
         /\ calls[k].net # NULL
         /\ NetIdsOf(doc, calls[k].ptr) = {calls[k].net}
         /\ \E o \in LookupConnectionByPin(calls[k].ptr, touching)
                       \cap {"v1", "l1", "a1", "g1"} :
              NetIdsOf(doc, o) = {calls[k].net}
    /\ \E k \in 1..Len(calls) :
         \E o \in LookupConnectionByPin(calls[k].ptr, touching) \cap PinIds :
           /\ o # calls[k].ptr
           /\ NetByName(Menu, KeyOf(o), 0, NULL) \notin {NULL, calls[k].net}

\* C3: the first entry of the emitted net table has id 0 and the empty
\* string as its name, whatever the netlist.
C3_NetZeroUnnamed ==
    fp \in {"open", "closed"} =>
      /\ NetTableOf(doc) # <<>>
      /\ NetTableOf(doc)[1].id = 0
      /\ NetTableOf(doc)[1].name = <<>>

\* C4: the net declared at 0-based position i is emitted with id i + 1, the
\* entries follow net 0 in declaration order, no declared net has id 0, and
\* the descriptor used for a pin or pad whose key matched net i carries the
\* id i + 1.
C4_NetIdsFollowDeclaration ==
    /\ fp = "open" =>
         /\ Len(net_descs) = Len(Menu) + 1
         /\ \A i \in 0..Len(Menu) - 1 : net_descs[i + 2].net_id = i + 1
    /\ fp \in {"open", "closed"} =>
         /\ Len(NetTableOf(doc)) = Len(Menu) + 1
         /\ NetTableOf(doc)[1].id = 0
         /\ \A i \in 0..Len(Menu) - 1 :
              /\ NetTableOf(doc)[i + 2].id = i + 1
              /\ NetTableOf(doc)[i + 2].id # 0
              /\ NetTableOf(doc)[i + 2].name = SkipSpaces(Menu[i + 1].Name)
         /\ \A k \in 1..Len(calls) :
              calls[k].net # NULL =>
                /\ calls[k].net \in 1..Len(Menu)
                /\ KeyOf(calls[k].ptr) \in ToSet(Menu[calls[k].net].Entry)
                /\ NetIdsOf(doc, calls[k].ptr) = {calls[k].net}

C4_Witness ==
    /\ Written
    /\ Len(Menu) = MaxNets
    /\ Menu[1].Name # SkipSpaces(Menu[1].Name)
    /\ \E k \in 1..Len(calls) : calls[k].net = MaxNets

\* The document without its random identifiers.
StripUuid(d) ==
    [i \in 1..Len(d) |-> [f \in DOMAIN d[i] \ {"uuid"} |-> d[i][f]]]

\* C5: a second export of the unchanged board writes the same net table,
\* the same sequence of objects and the same net id on every object as the
\* one before it; only the random identifiers differ.
C5_ExportRepeats ==
    (Written /\ prevDoc # <<>>) => StripUuid(doc) = StripUuid(prevDoc[1])

C5_Witness ==
    /\ Written
    /\ prevDoc # <<>>
    /\ doc # prevDoc[1]
    /\ \E o \in Objects : \E a \in NetIdsOf(doc, o) : a # 0
    /\ \E o \in Objects : 0 \in NetIdsOf(doc, o)

\* C6: when a successful export returns, the visited marker and the found
\* marker are clear on every board object.
C6_FlagsClearOnReturn ==
    Written => \A o \in Objects : flags[o] \cap {VISITFLAG, FOUNDFLAG} = {}

\* C7: on every return path of an export, the net descriptor table and the
\* assignment table are released and the assignment pointer and capacity
\* are reset.
C7_TablesReleased ==
    pc = "done" =>
      /\ heap = [descs |-> 0, assign |-> 0]
      /\ kicad_net_assign.null
      /\ kicad_max_net_assign = 0

\* C8 as stated: the entry point the host calls returns 0 when the document
\* was written and 1 when the file could not be opened.
C8_EntryPointStatus ==
    pc = "done" => export_ret = (IF fp = "closed" THEN <<0>> ELSE <<1>>)

\* C8 as amended: kicad_print returns 0 when the document was written and 1
\* when the file could not be opened; kicad_do_export, the entry point the
\* host calls, drops that value and returns none.
C8_PrintStatus ==
    pc = "done" =>
      /\ print_ret = (IF fp = "closed" THEN <<0>> ELSE <<1>>)
      /\ export_ret = <<>>

C8_Witness ==
    /\ OpenFailed
    /\ print_ret = <<1>>
    /\ prevDoc # <<>>

\* C9: when the output file cannot be opened, export logs the failure once,
\* emits nothing and returns a nonzero status, having set or cleared no flag
\* bit of any board object and run no connectivity lookup.
C9_OpenFailureIsInert ==
    OpenFailed =>
      /\ log = <<LogEntry("Cannot open file %s for writing", <<>>, "", <<>>)>>
      /\ doc = <<>>
      /\ print_ret # <<>> /\ print_ret[1] # 0
      /\ flags = entryFlags
      /\ lookups = 0
      /\ calls = <<>>

C9_Witness ==
    /\ OpenFailed
    /\ \E o \in Objects : FOUNDFLAG \in flags[o]


\* C1: within one export pass, after any sequence of kicad_add_net calls,
\* every board object has at most one entry in the assignment table, and
\* its net is the net of the first call whose flood-fill found it; a later
\* call that finds it again adds no entry and changes no net.
C1_FirstAssignmentWins ==
    pc = "add_net" =>
      \A o \in Objects :
        LET C == {k \in 1..Len(calls) : o \in calls[k].found}
            E == {i \in 1..Len(kicad_net_assign.mem) :
                    kicad_net_assign.mem[i].item = o}
            first == CHOOSE k \in C : \A j \in C : k <= j
        IN IF C = {} THEN E = {}
           ELSE /\ Cardinality(E) = 1
                /\ \A i \in E : kicad_net_assign.mem[i].net = calls[first].net
                /\ kicad_get_net_assign(kicad_net_assign.mem,
                                        kicad_num_net_assign, o)
                     = calls[first].net

C1_Witness ==
    /\ pc = "add_net"
    /\ \E o \in Objects :
         \E k1, k2 \in 1..Len(calls) :
           /\ k1 < k2
           /\ o \in calls[k1].found \cap calls[k2].found
           /\ calls[k1].net # calls[k2].net
           /\ calls[k2].net # NULL
           /\ kicad_get_net_assign(kicad_net_assign.mem,
                                   kicad_num_net_assign, o) = calls[k1].net
           /\ \E u \in calls[k2].found :
                kicad_get_net_assign(kicad_net_assign.mem,
                                     kicad_num_net_assign, u) = calls[k2].net

PinCount(el) == Len(el.Pin) + Len(el.Pad)

QuarterTurns == {Deg(0), Deg(90), Deg(180), Deg(270)}

\* The decimal numeral of i, with sign and one fraction digit f (none when f
\* is negative), and the number it denotes.
DigitChars == <<"0", "1", "2", "3", "4", "5", "6", "7", "8", "9">>
RECURSIVE ToDigits(_)
ToDigits(i) ==
    IF i < 10 THEN <<DigitChars[i + 1]>>
    ELSE ToDigits(i \div 10) \o <<DigitChars[(i % 10) + 1]>>
Numeral(neg, i, f) ==
    (IF neg THEN <<"-">> ELSE <<>>) \o ToDigits(i)
      \o (IF f < 0 THEN <<>> ELSE <<".", DigitChars[f + 1]>>)
NumeralValue(neg, i, f) ==
    LET tenths == 10 * i + (IF f < 0 THEN 0 ELSE f)
        t == IF neg THEN 0 - tenths ELSE tenths
    IN IF t % 10 = 0 THEN [kind |-> "deg", num |-> t \div 10, den |-> 1]
       ELSE [kind |-> "deg", num |-> t, den |-> 10]

\* C10: for an element with more than 2 pins and pads, kicad_get_rotation
\* returns 0, 90, 180 or 270 when there is no fixed-rotation attribute, and
\* the number the attribute denotes when there is one.
C10_RotationOfManyPins ==
    (pc = "rotation" /\ theta # <<>> /\ PinCount(rot_element) > 2) =>
      IF rot_element.Attributes = NoAttribute
      THEN theta[1] \in QuarterTurns
      ELSE /\ theta[1] = atof(rot_element.Attributes)
           /\ \A neg \in BOOLEAN, i \in 0..99, f \in -1..9 :
                rot_element.Attributes = Numeral(neg, i, f)
                  => theta[1] = NumeralValue(neg, i, f)

C10_Witness ==
    /\ pc = "rotation"
    /\ theta = <<[kind |-> "deg", num |-> -5, den |-> 10]>>
    /\ PinCount(rot_element) > 2
    /\ kicad_get_rotation_NoAttribute(rot_element) \in QuarterTurns

\* C11: for every angle d of [-180, 180] the sector chain returns, for two
\* pins, 0 below -175, 90 from -175 to below -85, 180 from -85 to below 5,
\* 270 from 5 to below 95 and 0 from 95 on; for more pins, 90 below -100,
\* 180 from -100 to below -10, 270 from -10 to below 80, 0 from 80 to below
\* 170 and 90 from 170 on.  A boundary value lies in the later sector.
C11_AngleSectors ==
    (pc = "angle" /\ ret # <<>>) =>
      LET s == AngleSteps
          d == arg.d.steps
          r == ret[1]
      IN IF arg.morethan2pins
         THEN /\ (d < -100 * s) => r = 90
              /\ (-100 * s <= d /\ d < -10 * s) => r = 180
              /\ (-10 * s <= d /\ d < 80 * s) => r = 270
              /\ (80 * s <= d /\ d < 170 * s) => r = 0
              /\ (170 * s <= d) => r = 90
         ELSE /\ (d < -175 * s) => r = 0
              /\ (-175 * s <= d /\ d < -85 * s) => r = 90
              /\ (-85 * s <= d /\ d < 5 * s) => r = 180
              /\ (5 * s <= d /\ d < 95 * s) => r = 270
              /\ (95 * s <= d) => r = 0

\* the boundary -175 of the two-pin table has been classified
C11_Witness ==
    /\ pc = "angle"
    /\ ~arg.morethan2pins
    /\ arg.d.steps = -175 * AngleSteps
    /\ ret = <<90>>


\* The element of the round-trip scenario: front-mounted, no fixed rotation,
\* mark at (0, 0), exactly the pins "1" at (0, 0) and "2" at (10, 0).
ScenarioElement(el) ==
    /\ ~el.ONSOLDERFLAG
    /\ el.Attributes = NoAttribute
    /\ el.MarkX = 0 /\ el.MarkY = 0
    /\ el.Pad = <<>>
    /\ Len(el.Pin) = 2
    /\ el.Pin[1].Number = <<"1">> /\ el.Pin[1].X = 0 /\ el.Pin[1].Y = 0
    /\ el.Pin[2].Number = <<"2">> /\ el.Pin[2].X = 10 /\ el.Pin[2].Y = 0

\* The footprint blocks of document d written for element el.
FootprintsOf(d, el) ==
    {i \in 1..Len(d) : /\ d[i].kind = "footprint"
                        /\ d[i].name = NAME(el, 0).TextString}

\* C12: on a board without netlist entries, the footprint of the scenario
\* element is written with rotation 180 and both of its pins with net id 0.
C12_TwoPinScenario ==
    (Written /\ Menu = <<>>) =>
      \A e \in 1..Len(Data.Element) :
        LET el == Data.Element[e]
        IN ScenarioElement(el) =>
             /\ FootprintsOf(doc, el) # {}
             /\ \A i \in FootprintsOf(doc, el) : doc[i].rot = Deg(180)
             /\ \A k \in 1..2 : NetIdsOf(doc, el.Pin[k].id) = {0}

C12_Witness ==
    /\ Written
    /\ Menu = <<>>
    /\ \E e \in 1..Len(Data.Element) :
         /\ ScenarioElement(Data.Element[e])
         /\ \E i \in FootprintsOf(doc, Data.Element[e]) : doc[i].rot = Deg(180)
         /\ NetIdsOf(doc, Data.Element[e].Pin[2].id) = {0}


\* The points of a block, in the order they are written.
RECURSIVE PointsOf(_)
PointsOf(lines) ==
    IF lines = <<>> THEN <<>> ELSE Head(lines).pts \o PointsOf(Tail(lines))

\* The points first .. end - 1.
PointRange(first, end) ==
    IF end <= first THEN <<>> ELSE [i \in 1..(end - first) |-> first + i - 1]

\* C13: for a polygon with H holes one zone block holding the points of the
\* outer boundary is written, followed by H keepout blocks, the h-th holding
\* the points of hole h; every point of the polygon is in exactly one block
\* and the points of a block keep their order.
C13_ZoneAndKeepouts ==
    (pc = "zone" /\ ret # <<>>) =>
      LET out == ret[1]
          hs == arg.HoleIndex
          H == Len(hs)
          start(h) == IF h = 0 THEN 0 ELSE hs[h]
          stop(h) == IF h < H THEN hs[h + 1] ELSE arg.PointN
      IN /\ Len(out) = H + 1
         /\ out[1].kind = "zone"
         /\ \A h \in 0..H :
              /\ h > 0 => out[h + 1].kind = "keepout"
              /\ PointsOf(out[h + 1].lines) = PointRange(start(h), stop(h))
         /\ \A k \in 0..(arg.PointN - 1) :
              Cardinality({<<b, j>> \in (1..Len(out)) \X (1..arg.PointN) :
                             /\ j <= Len(PointsOf(out[b].lines))
                             /\ PointsOf(out[b].lines)[j] = k}) = 1

\* a polygon with two holes whose outer boundary fills more than one line
C13_Witness ==
    /\ pc = "zone"
    /\ ret # <<>>
    /\ Len(arg.HoleIndex) = 2
    /\ arg.HoleIndex[1] > 7
    /\ Len(ret[1]) = 3
    /\ Len(ret[1][1].lines) > 1
    /\ ret[1][3].kind = "keepout"


\* The place of a block in the top-level order of the document.
BlockRank(kind) ==
    CASE kind = "header" -> 1
      [] kind = "paper" -> 2
      [] kind = "layers" -> 3
      [] kind = "net" -> 4
      [] kind \in {"footprint", "property", "pad", "fp_line", "footprint_end"} -> 5
      [] kind = "via" -> 6
      [] kind \in {"segment", "arc", "zone", "keepout"} -> 7
      [] kind \in {"gr_line", "gr_arc", "gr_text"} -> 8
      [] kind = "end" -> 9

\* C14: in a written document the blocks follow the order header, paper,
\* layer table, nets, footprints, vias, segments/arcs/zones, graphic lines/
\* arcs/texts, closing marker; no graphic block precedes a segment, arc or
\* zone block.
C14_BlockOrder ==
    Written =>
      \A i, j \in 1..Len(doc) :
        i < j => BlockRank(doc[i].kind) <= BlockRank(doc[j].kind)


\* Layer n + 1 of the board was logged as unsupported: the line that follows
\* its "Processing layer" line says so.
LoggedUnsupported(n) ==
    \E i \in 1..(Len(log) - 1) :
      /\ log[i].msg = "Processing layer %s - Type: %d"
      /\ log[i].name = Data.Layer[n].Name
      /\ log[i + 1].msg = "Unsupported layer type %d, skipping"

LayerObjects(layer) ==
    ToSet(layer.Line) \cup ToSet(layer.Arc) \cup ToSet(layer.Polygon)
      \cup ToSet(layer.Text)

\* Object o has a block in document d.
EmittedIn(d, o) == \E i \in 1..Len(d) : "obj" \in DOMAIN d[i] /\ d[i].obj = o

\* C15: a layer is logged as unsupported, and none of its objects written,
\* exactly when its type is none of copper, silk, outline and notes; a layer
\* of one of these types is not logged as unsupported and its objects are
\* written.
C15_UnsupportedLayers ==
    Written =>
      \A n \in 1..Len(Data.Layer) :
        LET layer == Data.Layer[n]
            known == layer.Type \in {LT_COPPER, LT_SILK, LT_OUTLINE, LT_NOTES}
            skipped == /\ LoggedUnsupported(n)
                       /\ \A o \in LayerObjects(layer) : ~EmittedIn(doc, o)
        IN /\ skipped <=> ~known
           /\ known => /\ ~LoggedUnsupported(n)
                        /\ \A o \in LayerObjects(layer) : EmittedIn(doc, o)

\* Some thermal style is set on a copper layer.
HasThermal(o) == \E l \in 1..max_copper_layer : o.Therm[l] # 0

\* The pins and the pads with thickness of the board.
EmittedPads ==
    UNION {ToSet(Data.Element[e].Pin)
             \cup {q \in ToSet(Data.Element[e].Pad) : q.Thickness > 0}
           : e \in 1..Len(Data.Element)}

\* C16: the block of every written pin or pad with a thermal style on some
\* copper layer has a zone connection, 2 when the style is 3 and 1 otherwise,
\* and a thermal gap; the block of a pin or pad without thermal style has
\* neither.
C16_ThermalFields ==
    Written =>
      \A o \in EmittedPads :
        \A i \in 1..Len(doc) :
          (doc[i].kind = "pad" /\ doc[i].obj = o.id) =>
            IF HasThermal(o)
            THEN /\ Len(doc[i].thermal) = 1
                 /\ doc[i].thermal[1].zone_connect
                      \in {IF o.Therm[l] = 3 THEN 2 ELSE 1 :
                             l \in {k \in 1..max_copper_layer : o.Therm[k] # 0}}
            ELSE doc[i].thermal = <<>>


\* C17: the footprint block of a back-mounted element uses the back-side
\* copper, silkscreen and fabrication layer names, and its reference, value
\* and footprint-name properties are rotated by 180 minus the angle of the
\* text; a front-mounted element uses the front-side names and the angle of
\* the text itself.  (The footprint-name property may take the angle of the
\* description or of the value text.)
C17_BackSideMirroring ==
    Written =>
      \A e \in 1..Len(Data.Element) :
        LET el == Data.Element[e]
            back == el.ONSOLDERFLAG
            own(k) == NAME(el, k).Direction * 90
            side(a) == IF back THEN 180 - a ELSE a
        IN \A i \in FootprintsOf(doc, el) :
             /\ doc[i].layer = (IF back THEN <<"B.Cu">> ELSE <<"F.Cu">>)
             /\ doc[i + 1].key = "Reference"
             /\ doc[i + 1].layer = (IF back THEN <<"B.SilkS">> ELSE <<"F.SilkS">>)
             /\ doc[i + 1].angle = side(own(1))
             /\ doc[i + 2].key = "Value"
             /\ doc[i + 2].layer = (IF back THEN <<"B.Fab">> ELSE <<"F.Fab">>)
             /\ doc[i + 2].angle = side(own(2))
             /\ doc[i + 3].key = "Footprint"
             /\ doc[i + 3].layer = (IF back THEN <<"B.Fab">> ELSE <<"F.Fab">>)
             /\ doc[i + 3].angle \in {side(own(0)), side(own(2))}


\* The parentheses open after the first k blocks of document d.
RECURSIVE ParenDepth(_, _)
ParenDepth(d, k) ==
    IF k = 0 THEN 0 ELSE ParenDepth(d, k - 1) + ParenDelta(d[k])

\* d is one parenthesised expression.
Balanced(d) ==
    /\ \A k \in 1..(Len(d) - 1) : ParenDepth(d, k) > 0
    /\ ParenDepth(d, Len(d)) = 0

NoObjects(data) ==
    /\ data.Element = <<>>
    /\ data.Via = <<>>
    /\ \A n \in 1..Len(data.Layer) : LayerObjects(data.Layer[n]) = {}

\* C18: the document of a board without elements, vias, netlist entries and
\* layer objects is the header, the page size, the layer table, the entry of
\* net 0 and the closing marker, and its parentheses are balanced.
C18_EmptyBoard ==
    (Written /\ Menu = <<>> /\ NoObjects(Data)) =>
      /\ [i \in 1..Len(doc) |-> doc[i].kind]
           = <<"header", "paper", "layers", "net", "end">>
      /\ doc[4].id = 0
      /\ Balanced(doc)

C18_Witness ==
    /\ Written
    /\ Menu = <<>>
    /\ NoObjects(Data)
    /\ Len(doc) = 5
    /\ doc[5].kind = "end"


HexDigits == {"0", "1", "2", "3", "4", "5", "6", "7", "8", "9",
              "a", "b", "c", "d", "e", "f"}

\* C19: an identifier is 36 characters long, has "-" at the positions 8, 13,
\* 18 and 23 (counted from 0) and a lower-case hexadecimal digit at every
\* other position, whatever rand() returns.
C19_UuidFormat ==
    (pc = "uuid" /\ ret # <<>>) =>
      LET u == ret[1]
      IN /\ Len(u) = 36
         /\ \A i \in 0..35 :
              IF i \in {8, 13, 18, 23} THEN u[i + 1] = "-"
              ELSE u[i + 1] \in HexDigits

\* an identifier made from values that begin at RAND_MAX and pass through
\* every digit
C19_Witness ==
    /\ pc = "uuid"
    /\ ret # <<>>
    /\ arg[1] = RAND_MAX
    /\ ret[1][1] = "f"
    /\ HexDigits \subseteq ToSet(ret[1])


\* Twice the offset of the pin or pad numbered name from the mark of el, as
\* a set: empty when el has no such pin or pad.
OffsetsOf(el, name) ==
    {<<2 * el.Pin[i].X - 2 * el.MarkX, 2 * el.Pin[i].Y - 2 * el.MarkY>> :
       i \in {j \in 1..Len(el.Pin) : el.Pin[j].Number = name}}
    \cup
    {<<el.Pad[i].Point1.X + el.Pad[i].Point2.X - 2 * el.MarkX,
       el.Pad[i].Point1.Y + el.Pad[i].Point2.Y - 2 * el.MarkY>> :
       i \in {j \in 1..Len(el.Pad) : el.Pad[j].Number = name}}

PriorityNames == << <<"1">>, <<"2">>, <<"A", "1">>, <<"A", "2">>,
                    <<"B", "1">>, <<"B", "2">> >>

\* The candidates of el that are present and off the mark.
Qualifying(el) ==
    {r \in 1..Len(PriorityNames) :
       \E o \in OffsetsOf(el, PriorityNames[r]) : o # <<0, 0>>}

\* C20: for an element with more than one pin or pad and no fixed rotation,
\* the rotation is the sector of the first pin, in the order "1", "2", "A1",
\* "A2", "B1", "B2", that is present and off the reference point (mirrored
\* for the back side); a candidate on the reference point is passed over,
\* and the rotation is 0 when no candidate qualifies.
C20_ReferencePinPriority ==
    (/\ pc = "rotation" /\ theta # <<>>
     /\ PinCount(rot_element) > 1
     /\ rot_element.Attributes = NoAttribute) =>
      LET el == rot_element
          Q == Qualifying(el)
          r == CHOOSE q \in Q : \A s \in Q : q <= s
          o == CHOOSE v \in OffsetsOf(el, PriorityNames[r]) : TRUE
          x == IF el.ONSOLDERFLAG THEN 0 - o[1] ELSE o[1]
      IN IF Q = {} THEN theta[1] = Deg(0)
         ELSE theta[1] = Deg(xyToAngle(x, o[2], PinCount(el) > 2))

\* pin "1" lies on the mark and pin "2", below it in priority, decides
C20_Witness ==
    /\ pc = "rotation"
    /\ theta # <<>>
    /\ rot_element.Attributes = NoAttribute
    /\ rot_element.ONSOLDERFLAG
    /\ Len(rot_element.Pin) = 2 /\ rot_element.Pad = <<>>
    /\ OffsetsOf(rot_element, <<"1">>) = {<<0, 0>>}
    /\ Qualifying(rot_element) = {2}
    /\ theta[1] = Deg(0)


\* The objects call k of this pass found that no earlier call had found.
FreshOf(k) == calls[k].found \ UNION {calls[j].found : j \in 1..(k - 1)}

\* C21: when the seed of a flood-fill matches no net, every object the fill
\* finds that was not visited before is recorded in the assignment table and
\* marked visited, it and the seed are written with net id 0, and none of
\* them is a seed again in the same pass.
C21_UnmatchedSeedFloodFill ==
    fp \in {"open", "closed"} =>
      \A k \in 1..Len(calls) :
        calls[k].net = NULL =>
          /\ calls[k].ptr \in FreshOf(k)
          /\ fp = "open" =>
                \A o \in FreshOf(k) :
                  /\ VISITFLAG \in flags[o]
                  /\ Cardinality({i \in 1..Len(kicad_net_assign.mem) :
                                    kicad_net_assign.mem[i].item = o}) = 1
          /\ \A o \in FreshOf(k) : NetIdsOf(doc, o) \subseteq {0}
          /\ Written => \A o \in FreshOf(k) : NetIdsOf(doc, o) = {0}
          /\ \A j \in (k + 1)..Len(calls) : calls[j].ptr \notin calls[k].found

\* a seed without a net whose fill reached a second pin
C21_Witness ==
    /\ Written
    /\ \E k \in 1..Len(calls) :
         /\ calls[k].net = NULL
         /\ calls[k].ptr = "p11"
         /\ "p21" \in FreshOf(k)
         /\ NetIdsOf(doc, "p21") = {0}


\* C22: in the point list of the zone block and of every keepout block each
\* output line starts with the indentation and holds exactly 7 points, except
\* the last line of the list, which holds 1 to 7 points.
C22_PointListLines ==
    (pc = "zone" /\ ret # <<>>) =>
      \A b \in 1..Len(ret[1]) :
        LET lines == ret[1][b].lines
        IN \A i \in 1..Len(lines) :
             /\ lines[i].indent
             /\ Len(lines[i].pts) \in 1..7
             /\ i < Len(lines) => Len(lines[i].pts) = 7


\* The groups of G that list the layer l.
GroupsListing(G, l) == {g \in 0..(Len(G) - 1) : l \in ToSet(G[g + 1])}

\* C23: the lookup of the group of a layer returns, for every layer number,
\* the lowest-numbered group that lists the layer, and for a layer that is in
\* no group the index of the last group examined, which is a valid group
\* index.
C23_GroupLookupTotal ==
    (pc = "group" /\ ret # <<>>) =>
      LET listing == GroupsListing(arg.Groups, arg.Layer)
      IN /\ ret[1] \in 0..(MAX_LAYER - 1)
         /\ listing # {} =>
               /\ ret[1] \in listing
               /\ \A g \in listing : ret[1] <= g
         /\ listing = {} => ret[1] = MAX_LAYER - 1


\* The smallest box holding the boxes of the non-empty set S.
UnionBox(S) ==
    [X1 |-> CHOOSE v \in {b.X1 : b \in S} : \A b \in S : v <= b.X1,
     Y1 |-> CHOOSE v \in {b.Y1 : b \in S} : \A b \in S : v <= b.Y1,
     X2 |-> CHOOSE v \in {b.X2 : b \in S} : \A b \in S : v >= b.X2,
     Y2 |-> CHOOSE v \in {b.Y2 : b \in S} : \A b \in S : v >= b.Y2]

\* The boxes of the lines, pins, pads and arcs of the element el.
PrimitiveBoxes(el) ==
    {GetObjectBoundingBox(LINE_TYPE, el.Line[i]) : i \in 1..Len(el.Line)}
      \cup {GetObjectBoundingBox(PIN_TYPE, el.Pin[i]) : i \in 1..Len(el.Pin)}
      \cup {GetObjectBoundingBox(PAD_TYPE, el.Pad[i]) : i \in 1..Len(el.Pad)}
      \cup {SetArcBoundingBox(el.Arc[i]) : i \in 1..Len(el.Arc)}

\* C24: after the bounding box of an element is set, the box stored on the
\* element is the union of the boxes of its lines, pins, pads and arcs and of
\* the box of its reference-designator text, and it is the same for every
\* value text and footprint-name text.
C24_ElementBoxUnion ==
    (pc = "elementbox" /\ ret # <<>>) =>
      /\ ret[1].BoundingBox =
           UnionBox(PrimitiveBoxes(arg) \cup {arg.Name[2].BoundingBox})
      /\ \A v \in BoxTexts :
           SetElementBoundingBox([arg EXCEPT !.Name = <<v, arg.Name[2], v>>]).BoundingBox
             = ret[1].BoundingBox

\* C25: for a via, a pin, a line and a pad the box returned by
\* GetObjectBoundingBox is the min/max of the defining points of the object
\* widened on each of the four sides by half the thickness, the half taken
\* by integer division by 2.
C25_HalfThicknessBox ==
    (pc = "box" /\ ret # <<>>) =>
      LET o == arg.o
          pts == IF arg.Type \in {VIA_TYPE, PIN_TYPE} THEN {[X |-> o.X, Y |-> o.Y]}
                 ELSE {o.Point1, o.Point2}
          half == o.Thickness \div 2
      IN /\ \A p \in pts : /\ ret[1].X1 <= p.X - half
                            /\ ret[1].Y1 <= p.Y - half
                            /\ ret[1].X2 >= p.X + half
                            /\ ret[1].Y2 >= p.Y + half
         /\ \E p \in pts : ret[1].X1 = p.X - half
         /\ \E p \in pts : ret[1].Y1 = p.Y - half
         /\ \E p \in pts : ret[1].X2 = p.X + half
         /\ \E p \in pts : ret[1].Y2 = p.Y + half

\* The point of the arc at the angle, a multiple of 90 degrees: the centre
\* offset by the width in X or by the height in Y.
ArcPoint(Arc, angle) ==
    [X |-> Arc.X - Arc.Width * RightAngles(angle).cosa,
     Y |-> Arc.Y + Arc.Height * RightAngles(angle).sina]

\* C26: for an arc whose start angle and delta are multiples of 90 degrees
\* the box set by SetArcBoundingBox holds, widened by half the thickness,
\* both end points of the arc and the point of the arc at every multiple of
\* 90 degrees strictly between the start angle and start + delta.
C26_ArcBoxCrossings ==
    (pc = "arcbox" /\ ret # <<>>) =>
      LET half == arg.Thickness \div 2
          angles == {arg.StartAngle, arg.StartAngle + arg.Delta}
                      \cup {a \in (arg.StartAngle + 1)..(arg.StartAngle + arg.Delta - 1) :
                              a % 90 = 0}
      IN \A a \in angles :
           LET p == ArcPoint(arg, a)
           IN /\ ret[1].X1 <= p.X - half
              /\ ret[1].Y1 <= p.Y - half
              /\ ret[1].X2 >= p.X + half
              /\ ret[1].Y2 >= p.Y + half


\* C27: the assignment table is append-only during a pass: after any number
\* of additions, those that grow the capacity included, every earlier entry
\* is at its index with its object and its net, the entry count is at most
\* the capacity, and a lookup returns the net of the entry of the object, or
\* no net when the object has no entry.
C27_AppendOnlyTable ==
    pc = "assign" =>
      LET mem == kicad_net_assign.mem
          num == kicad_num_net_assign
      IN /\ num <= kicad_max_net_assign
         /\ num = arg.start + Len(calls)
         /\ \A i \in 1..arg.start : mem[i] = Prefill(i)
         /\ \A k \in 1..Len(calls) : mem[arg.start + k] = calls[k]
         /\ \A item \in AssignItems \cup {0, 1, arg.start, NetAssignInitial + 1} :
              LET at == {i \in 1..num : mem[i].item = item}
              IN kicad_get_net_assign(mem, num, item)
                   = IF at = {} THEN NULL ELSE mem[CHOOSE i \in at : TRUE].net

\* additions before and after the table grew
C27_Witness ==
    /\ pc = "assign"
    /\ arg.start < NetAssignInitial
    /\ kicad_max_net_assign = NetAssignInitial + NetAssignGrow
    /\ kicad_num_net_assign > NetAssignInitial + 1
    /\ kicad_get_net_assign(kicad_net_assign.mem, kicad_num_net_assign,
                            calls[1].item) = calls[1].net


\* The nets of the netlist, by index from 1, that list the key.
NetsListing(key) == {i \in 1..Len(Menu) : key \in ToSet(Menu[i].Entry)}

\* C28: every pin or pad written to the document whose key is listed in some
\* net of the netlist carries the id of a net that lists the key, whatever
\* the visiting order and whatever it is connected to.
C28_ListedKeyGetsItsNet ==
    Written =>
      \A o \in PinIds \cup PadIds :
        (NetIdsOf(doc, o) # {} /\ NetsListing(KeyOf(o)) # {}) =>
          NetIdsOf(doc, o) \subseteq NetsListing(KeyOf(o))

\* C29: two exports of a board that differ only in the VISITFLAG and
\* FOUNDFLAG bits on the objects when they begin write the same net id for
\* every object.
C29_EntryFlagsIrrelevant ==
    (Written /\ prevDoc # <<>>) =>
      \A o \in Objects : NetIdsOf(doc, o) = NetIdsOf(prevDoc[1], o)

\* C30: when the key of an unvisited pin or pad is listed in more than one
\* net, the net used for it is the first net in declaration order that
\* lists the key.
C30_FirstMatchingNet ==
    \A k \in 1..Len(calls) :
      LET listing == NetsListing(KeyOf(calls[k].ptr))
      IN Cardinality(listing) > 1 =>
           /\ calls[k].net \in listing
           /\ \A i \in listing : calls[k].net <= i


====
